---- MODULE Spec2Model ----
(***************************************************************************)
(* The WebAssembly back end of the compiler: compiler-core/src/wasm.         *)
(*                                                                         *)
(* Three specifications share the variables below.                         *)
(*   Spec       lowers one typed function (emit_function and what it       *)
(*              calls) and then runs the emitted instruction sequence on a *)
(*              WebAssembly operand-stack machine.                         *)
(*   SpecModule runs construct_module's three passes over a typed module   *)
(*              and then encoder::emit, section by section.                *)
(*   SpecStatement lowers a function whose body is a statement list, as    *)
(*              the last definition of a module of custom types, and runs  *)
(*              it, constructor calls and struct instructions included.    *)
(***************************************************************************)
EXTENDS Integers, Sequences, FiniteSets, TLC

VARIABLES
    \* ---- lowering and execution of one function (Spec) ----
    fn,        \* the typed function under compilation
    argv,      \* the argument values it is called with
    phase,     \* "ast" | "run" | "halt" (Spec); "pass1" ... "done" (SpecModule)
    code,      \* WasmFunction.instructions.lst
    fnLocals,  \* the function's LocalStore, as a list
    pc,        \* position of the next instruction
    stack,     \* operand stack
    frame,     \* values of the locals, frame[i+1] is local i
    labels,    \* control stack of the enclosing block/if labels
    status,    \* "running" | "done" | "trap" | "invalid" | "panic"
    trace,     \* positions of the instructions executed so far
    \* ---- module assembly and encoding (SpecModule) ----
    ast,       \* the typed module: its list of definitions
    cursor,    \* index of the next definition of the running pass
    table,     \* SymbolTable
    root_environment,
    functions, \* Vec<WasmFunction> of construct_module
    constants, \* Vec<WasmGlobal> of construct_module
    wasm_module, \* the WasmModule handed to encoder::emit (sorted in place)
    sections,  \* the sections appended to the wasm_encoder::Module so far
    written,   \* the calls of writer.write_bytes so far
    \* ---- the instantiated module ----
    global_values \* the instance's globals: value and number of global.set so far

vars == <<fn, argv, phase, code, fnLocals, pc, stack, frame, labels, status,
          trace, ast, cursor, table, root_environment, functions, constants,
          wasm_module, sections, written, global_values>>

execVars == <<fn, argv, code, fnLocals, pc, stack, frame, labels, trace, global_values>>
moduleVars == <<ast, cursor, table, root_environment, functions, constants,
                wasm_module, sections, written>>

(***************************************************************************)
(* Bounds of the model.                                                    *)
(***************************************************************************)
\* integer arguments range over 0..MaxArg, and -7 and 7
MaxArg == 1
\* integer literals of the source are the one-digit literals 0..MaxLit
MaxLit == 1
\* a case expression has at most MaxClauses clauses
MaxClauses == 2

None == [kind |-> "None", id |-> 0]

(***************************************************************************)
(* Instructions (wasm_encoder::Instruction), as [op, n] records.           *)
(***************************************************************************)
Ins(op, n) == [op |-> op, n |-> n]
I32Const(n) == Ins("I32Const", n)
I32Eqz == Ins("I32Eqz", 0)
I32Eq == Ins("I32Eq", 0)
LocalGet(i) == Ins("LocalGet", i)
LocalSet(i) == Ins("LocalSet", i)
LocalTee(i) == Ins("LocalTee", i)
Drop == Ins("Drop", 0)
\* Block and If carry the arity of their BlockType: Empty is 0, Result(_) is 1
Block(arity) == Ins("Block", arity)
If(arity) == Ins("If", arity)
Else == Ins("Else", 0)
End == Ins("End", 0)
Br(l) == Ins("Br", l)
BrIf(l) == Ins("BrIf", l)
Unreachable == Ins("Unreachable", 0)
Call(f) == Ins("Call", f)
GlobalGet(g) == Ins("GlobalGet", g)
GlobalSet(g) == Ins("GlobalSet", g)
RefAsNonNull == Ins("RefAsNonNull", 0)
StructNew(t) == Ins("StructNew", t)
RefTest(t) == Ins("RefTest", t)
RefCast(t) == Ins("RefCast", t)
\* struct.get of field `field` (the tag is field 0) of a struct of type t
StructGet(t, field) == [op |-> "StructGet", n |-> t, field |-> field]

(***************************************************************************)
(* integer.rs: the integer value-type is the 32-bit signed integer.        *)
(***************************************************************************)
RECURSIVE integer_parse_digits(_, _)
integer_parse_digits(digits, acc) ==
    IF digits = <<>> THEN acc
    ELSE integer_parse_digits(Tail(digits), acc * 10 + Head(digits))
\* a decimal literal is the list of its digits
integer_parse(value) == integer_parse_digits(value, 0)
integer_const(n) == <<I32Const(n)>>
integer_add == <<Ins("I32Add", 0)>>
integer_sub == <<Ins("I32Sub", 0)>>
integer_mul == <<Ins("I32Mul", 0)>>
integer_div == <<Ins("I32DivS", 0)>>
integer_rem == <<Ins("I32RemS", 0)>>
integer_eq == <<I32Eq>>
integer_lt == <<Ins("I32LtS", 0)>>
integer_lte == <<Ins("I32LeS", 0)>>
integer_gt == <<Ins("I32GtS", 0)>>
integer_gte == <<Ins("I32GeS", 0)>>

(***************************************************************************)
(* table.rs: LocalStore. Ids are issued in order from 0; the store keeps   *)
(* its entries in id order, so the store is the list of its locals.        *)
(***************************************************************************)
LocalStore_new == <<>>
LocalStore_new_id(locals) == Len(locals)
LocalStore_insert(locals, id, name, wasm_type) ==
    Append(locals, [id |-> id, name |-> name, wasm_type |-> wasm_type])

(***************************************************************************)
(* environment.rs: a chain of scopes, innermost last. set writes the       *)
(* innermost scope, get walks from the innermost scope outwards.           *)
(***************************************************************************)
Binding(kind, id) == [kind |-> kind, id |-> id]
EmptyScope == [n \in {} |-> None]
Environment_new == <<EmptyScope>>
Environment_with_enclosing(env) == Append(env, EmptyScope)
Environment_set(env, name, binding) ==
    LET scope == env[Len(env)] IN
    [env EXCEPT ![Len(env)] =
        [n \in DOMAIN scope \cup {name} |->
            IF n = name THEN binding ELSE scope[n]]]
RECURSIVE Environment_get_from(_, _, _)
Environment_get_from(env, i, name) ==
    IF i = 0 THEN None
    ELSE IF name \in DOMAIN env[i] THEN env[i][name]
    ELSE Environment_get_from(env, i - 1, name)
Environment_get(env, name) == Environment_get_from(env, Len(env), name)

(***************************************************************************)
(* table.rs: one store per entity kind. new_id issues the next id; insert  *)
(* files an entity under an id issued earlier; get finds it or not;        *)
(* as_list is the entities in ascending id order.                          *)
(***************************************************************************)
Store_new == [next |-> 0, items |-> [i \in {} |-> None]]
Store_new_id(store) == store.next
Store_after_new_id(store) == [store EXCEPT !.next = store.next + 1]
Store_insert(store, id, item) ==
    [store EXCEPT !.items =
        [i \in DOMAIN store.items \cup {id} |->
            IF i = id THEN item ELSE store.items[i]]]
Store_get(store, id) ==
    IF id \in DOMAIN store.items THEN store.items[id] ELSE None
RECURSIVE Store_list_from(_, _)
Store_list_from(store, i) ==
    IF i >= store.next THEN <<>>
    ELSE IF i \in DOMAIN store.items
         THEN <<store.items[i]>> \o Store_list_from(store, i + 1)
         ELSE Store_list_from(store, i + 1)
Store_as_list(store) == Store_list_from(store, 0)

SymbolTable_new ==
    [types |-> Store_new, functions |-> Store_new, products |-> Store_new,
     sums |-> Store_new, constants |-> Store_new]

(***************************************************************************)
(* Source types (type_::Type). Named types carry their name; a type        *)
(* variable is linked to a type (link = <<t>>) or unresolved (link = <<>>).*)
(***************************************************************************)
Named(name) == [k |-> "Named", name |-> name]
TypeVarLink(t) == [k |-> "Var", link |-> <<t>>]
TypeVarUnbound == [k |-> "Var", link |-> <<>>]
IntType == Named("Int")
BoolType == Named("Bool")
NilType == Named("Nil")
FloatType == Named("Float")
is_int(t) == t.k = "Named" /\ t.name = "Int"
is_bool(t) == t.k = "Named" /\ t.name = "Bool"
is_nil(t) == t.k = "Named" /\ t.name = "Nil"
is_float(t) == t.k = "Named" /\ t.name = "Float"

(***************************************************************************)
(* encoder.rs: WasmTypeImpl and from_gleam_type. WPanic stands for the     *)
(* abort of todo!, unreachable! and unwrap on None.                        *)
(***************************************************************************)
WInt == [t |-> "Int", ref |-> 0]
WFloat == [t |-> "Float", ref |-> 0]
WBool == [t |-> "Bool", ref |-> 0]
WNil == [t |-> "Nil", ref |-> 0]
StructRef(id) == [t |-> "StructRef", ref |-> id]
WPanic == [t |-> "Panic", ref |-> 0]

resolve_type_name(name, env, tbl) ==
    LET binding == Environment_get(env, name) IN
    IF binding = None THEN WPanic
    ELSE IF binding.kind = "Product" THEN
        LET product == Store_get(tbl.products, binding.id) IN
        IF product = None THEN WPanic
        ELSE LET type_ == Store_get(tbl.types, product.type_) IN
             IF type_ = None THEN WPanic ELSE StructRef(type_.definition.id)
    ELSE IF binding.kind = "Sum" THEN
        LET sum == Store_get(tbl.sums, binding.id) IN
        IF sum = None THEN WPanic
        ELSE LET type_ == Store_get(tbl.types, sum.type_) IN
             IF type_ = None THEN WPanic ELSE StructRef(type_.definition.id)
    ELSE WPanic

RECURSIVE from_gleam_type(_, _, _)
from_gleam_type(type_, env, tbl) ==
    IF is_int(type_) THEN WInt
    ELSE IF is_bool(type_) THEN WBool
    ELSE IF is_nil(type_) THEN WNil
    ELSE IF type_.k = "Named" THEN resolve_type_name(type_.name, env, tbl)
    ELSE IF type_.k = "Var" THEN
        IF type_.link # <<>> THEN from_gleam_type(type_.link[1], env, tbl)
        ELSE WPanic
    ELSE WPanic

RECURSIVE from_gleam_types(_, _, _)
\* the loops `for arg in arguments { push(from_gleam_type(arg.type_)) }`
from_gleam_types(arguments, env, tbl) ==
    IF arguments = <<>> THEN <<>>
    ELSE <<from_gleam_type(Head(arguments).type_, env, tbl)>>
         \o from_gleam_types(Tail(arguments), env, tbl)

TypesPanic(ts) == \E i \in 1..Len(ts) : ts[i] = WPanic

\* WasmType::from_function
from_function(f, name, id, tbl, env) ==
    [name |-> name, id |-> id,
     definition |->
        [k |-> "Function",
         parameters |-> from_gleam_types(f.arguments, env, tbl),
         returns |-> from_gleam_type(f.return_type, env, tbl)]]

\* WasmType::from_product_type
from_product_type(variant, name, type_id, tag, supertype_index, tbl, env) ==
    [name |-> name, id |-> type_id,
     definition |->
        [k |-> "Product",
         supertype_index |-> supertype_index,
         tag |-> tag,
         fields |-> from_gleam_types(variant.arguments, env, tbl)]]

\* WasmType::from_product_type_constructor
from_product_type_constructor(variant, name, product_type_index, constructor_type_index, tbl, env) ==
    [name |-> name, id |-> constructor_type_index,
     definition |->
        [k |-> "Function",
         parameters |-> from_gleam_types(variant.arguments, env, tbl),
         returns |-> StructRef(product_type_index)]]

\* whether synthesising a WasmType aborted
WasmTypePanic(wt) ==
    \/ wt.definition.k = "Function"
       /\ (TypesPanic(wt.definition.parameters) \/ wt.definition.returns = WPanic)
    \/ wt.definition.k = "Product" /\ TypesPanic(wt.definition.fields)

(***************************************************************************)
(* The typed AST (ast::TypedExpr, TypedStatement, TypedClause, Pattern).   *)
(* Every expression node carries its type, as type_() returns it.          *)
(***************************************************************************)
IntLit(n) == [k |-> "Int", value |-> <<n>>, typ |-> IntType]
LocalVar(name, typ) ==
    [k |-> "Var", name |-> name, variant |-> "LocalVariable", arity |-> 0,
     typ |-> typ]
RecordVar(name, arity, typ) ==
    [k |-> "Var", name |-> name, variant |-> "Record", arity |-> arity,
     typ |-> typ]
TrueExpr == RecordVar("True", 0, BoolType)
FalseExpr == RecordVar("False", 0, BoolType)
NegateInt(e) == [k |-> "NegateInt", value |-> e, typ |-> IntType]
NegateBool(e) == [k |-> "NegateBool", value |-> e, typ |-> BoolType]
BinOp(name, left, right, typ) ==
    [k |-> "BinOp", name |-> name, left |-> left, right |-> right, typ |-> typ]
IntOp(name, left, right) == BinOp(name, left, right, IntType)
BoolOp(name, left, right) == BinOp(name, left, right, BoolType)
ExprStatement(e) == [k |-> "Expression", expression |-> e]
\* Statement::Assignment: kind is "Let" or "Assert" (AssignmentKind)
Assignment(kind, pattern, value) ==
    [k |-> "Assignment", kind |-> kind, pattern |-> pattern, value |-> value]
\* TypedAssignment::type_ is the type of the value
Assignment_type_(assignment) == assignment.value.typ
StatementType(statement) ==
    IF statement.k = "Assignment" THEN Assignment_type_(statement)
    ELSE statement.expression.typ
BlockExpr(statements) ==
    [k |-> "Block", statements |-> statements,
     typ |-> StatementType(statements[Len(statements)])]
ModuleFnVar(name, typ) ==
    [k |-> "Var", name |-> name, variant |-> "ModuleFn", arity |-> 0,
     typ |-> typ]
CallArg(value) == [value |-> value]
CallExpr(fun, args, typ) ==
    [k |-> "Call", fun |-> fun, args |-> args, typ |-> typ]
CaseExpr(subjects, clauses, typ) ==
    [k |-> "Case", subjects |-> subjects, clauses |-> clauses, typ |-> typ]
Clause(pattern, then) == [pattern |-> pattern, then |-> then]
PatternInt(n) == [k |-> "Int", value |-> <<n>>]
PatternVariable(name) == [k |-> "Variable", name |-> name]
PatternDiscard == [k |-> "Discard"]
PatternConstructor(name, arguments) ==
    [k |-> "Constructor", name |-> name, arguments |-> arguments]

(***************************************************************************)
(* pattern.rs: compile_pattern builds the tree of checks, projections and  *)
(* bindings of a pattern against a scrutinee local; translate_pattern      *)
(* materialises each node's instruction sequences. A condition leaves one  *)
(* i32 on the stack, non-zero iff the node matches (mod.rs always appends  *)
(* i32.eqz and br_if to it): the always-true condition is the constant 1.  *)
(***************************************************************************)
\* the new locals a constructor pattern projects the product's fields into;
\* declared holds the ids issued so far and the LocalStore
RECURSIVE pattern_field_locals(_, _, _)
pattern_field_locals(declared, fields, j) ==
    IF j > Len(fields) THEN declared
    ELSE pattern_field_locals(
             [ids |-> Append(declared.ids, LocalStore_new_id(declared.locals)),
              locals |->
                  LocalStore_insert(
                      declared.locals, LocalStore_new_id(declared.locals),
                      <<"#pattern#", LocalStore_new_id(declared.locals)>>,
                      fields[j].type_)],
             fields, j + 1)

\* a compiled sub-pattern joins the nodes compiled before it
pattern_compiled(compiled, sub) ==
    [nodes |-> Append(compiled.nodes, sub.node), locals |-> sub.locals]

RECURSIVE compile_pattern(_, _, _, _, _)
RECURSIVE compile_patterns(_, _, _, _, _)
\* the field patterns of a constructor pattern, each against its field's local
compile_patterns(compiled, subject_ids, patterns, tbl, env) ==
    IF patterns = <<>> \/ subject_ids = <<>> THEN compiled
    ELSE compile_patterns(
             pattern_compiled(
                 compiled,
                 compile_pattern(Head(subject_ids), Head(patterns), tbl, env,
                                 compiled.locals)),
             Tail(subject_ids), Tail(patterns), tbl, env)

\* a constructor pattern once its fields' locals are declared
constructor_pattern(subject_id, product, field_ids, children) ==
    [node |->
        [check |-> "RefTest", subject |-> subject_id, value |-> product.type_,
         bindings |-> <<>>, fields |-> field_ids, nested |-> children.nodes],
     locals |-> children.locals]

\* a constructor pattern of a product: its fields' locals, then its children
compile_constructor(subject_id, pattern, product, declared, tbl, env) ==
    constructor_pattern(
        subject_id, product, declared.ids,
        compile_patterns([nodes |-> <<>>, locals |-> declared.locals],
                         declared.ids, pattern.arguments, tbl, env))

compile_pattern(subject_id, pattern, tbl, env, locals) ==
    IF pattern.k = "Int" THEN
        [node |->
            [check |-> "IntEq", subject |-> subject_id,
             value |-> integer_parse(pattern.value),
             bindings |-> <<>>, fields |-> <<>>, nested |-> <<>>],
         locals |-> locals]
    ELSE IF pattern.k = "Variable" THEN
        [node |->
            [check |-> "True", subject |-> subject_id, value |-> 0,
             bindings |-> <<<<pattern.name, subject_id>>>>, fields |-> <<>>,
             nested |-> <<>>],
         locals |-> locals]
    ELSE IF /\ pattern.k = "Constructor"
            /\ Environment_get(env, pattern.name).kind = "Product"
            /\ Store_get(tbl.products,
                         Environment_get(env, pattern.name).id) # None
    THEN compile_constructor(
             subject_id, pattern,
             Store_get(tbl.products, Environment_get(env, pattern.name).id),
             pattern_field_locals(
                 [ids |-> <<>>, locals |-> locals],
                 Store_get(tbl.products,
                           Environment_get(env, pattern.name).id).fields,
                 1),
             tbl, env)
    ELSE
        [node |->
            [check |-> "True", subject |-> subject_id, value |-> 0,
             bindings |-> <<>>, fields |-> <<>>, nested |-> <<>>],
         locals |-> locals]

\* the projections of a constructor pattern: field j of the scrutinee, cast
\* to the product's type, is stored in the j-th field local
RECURSIVE pattern_projections(_, _)
pattern_projections(compiled, j) ==
    IF j > Len(compiled.fields) THEN <<>>
    ELSE <<LocalGet(compiled.subject), RefCast(compiled.value),
           StructGet(compiled.value, j), LocalSet(compiled.fields[j])>>
         \o pattern_projections(compiled, j + 1)

RECURSIVE translate_pattern(_, _, _)
translate_pattern(compiled, locals, tbl) ==
    [condition |->
        IF compiled.check = "IntEq"
        THEN <<LocalGet(compiled.subject)>> \o integer_const(compiled.value)
             \o integer_eq
        ELSE IF compiled.check = "RefTest"
        THEN <<LocalGet(compiled.subject), RefTest(compiled.value)>>
        ELSE <<I32Const(1)>>,
     assignments |-> pattern_projections(compiled, 1),
     bindings |-> compiled.bindings,
     nested |-> [i \in 1..Len(compiled.nested) |->
                    translate_pattern(compiled.nested[i], locals, tbl)]]

(***************************************************************************)
(* mod.rs: the expression lowerer. Every emit_* returns the instructions,  *)
(* the LocalStore as the call left it (locals is a &mut parameter) and     *)
(* whether the call aborted.                                               *)
(***************************************************************************)
Emitted(insts, locals, panic) ==
    [insts |-> insts, locals |-> locals, panic |-> panic]
EmitPanic(locals) == Emitted(<<>>, locals, TRUE)

\* instructions.lst.extend(new_insts.lst), then the instructions pushed after it
Extended(instructions, new_insts, pushed) ==
    [new_insts EXCEPT
        !.insts = instructions.insts \o new_insts.insts \o pushed,
        !.panic = instructions.panic \/ new_insts.panic]

\* TypedExpr::Int
emit_int(value) == integer_const(integer_parse(value))

\* TypedExpr::NegateInt, around the lowered value
emit_negate_int(value) ==
    Extended(Emitted(<<>>, value.locals, FALSE), value,
             integer_const(-1) \o integer_mul)

\* TypedExpr::NegateBool, around the lowered value
emit_negate_bool(value) ==
    Extended(Emitted(<<>>, value.locals, FALSE), value, <<I32Eqz>>)

\* TypedExpr::Var
emit_var(expression, env, tbl) ==
    LET binding == Environment_get(env, expression.name) IN
    IF expression.variant = "LocalVariable" THEN
        IF binding.kind = "Local" THEN <<LocalGet(binding.id)>> ELSE <<>>
    ELSE IF expression.variant = "ModuleFn" THEN
        IF binding.kind = "Function" THEN <<Call(binding.id)>> ELSE <<>>
    ELSE IF expression.variant = "Record" /\ expression.arity = 0 THEN
        IF binding.kind = "Product" THEN
            LET product == Store_get(tbl.products, binding.id) IN
            IF product # None /\ product.kind = "Simple"
            THEN <<GlobalGet(product.instance), RefAsNonNull>>
            ELSE <<>>
        ELSE IF binding.kind = "BuiltinNil" THEN <<I32Const(0)>>
        ELSE IF binding.kind = "BuiltinBoolean" THEN <<I32Const(binding.id)>>
        ELSE <<>>
    ELSE <<>>

\* BinOp::DivInt: the sequence around the two operands
emit_div_int(left_insts, right_insts, right_id) ==
    left_insts \o right_insts
    \o <<LocalTee(right_id)>> \o integer_const(0) \o integer_eq
    \o <<If(1)>>
    \o <<LocalGet(right_id)>> \o integer_div
    \o <<Else>>
    \o <<Drop, LocalGet(right_id)>>
    \o <<End>>

\* BinOp::RemainderInt
emit_remainder_int(left_insts, right_insts) ==
    left_insts \o right_insts \o integer_rem

\* BinOp::And with the two branches of the `if` exchanged
emit_and_exchanged(left_insts, right_insts) ==
    left_insts \o <<If(1), I32Const(0), Else>> \o right_insts \o <<End>>

\* BinOp::And
emit_and(left_insts, right_insts) ==
    left_insts \o <<If(1)>> \o right_insts \o <<Else, I32Const(0), End>>

\* BinOp::Or
emit_or(left_insts, right_insts) ==
    left_insts \o <<If(1), I32Const(1), Else>> \o right_insts \o <<End>>

\* the operators lowered as `left; right; op`, and Eq / NotEq by operand type
binary_operator(name, type_) ==
    IF name = "AddInt" THEN integer_add
    ELSE IF name = "SubInt" THEN integer_sub
    ELSE IF name = "MultInt" THEN integer_mul
    ELSE IF name = "LtInt" THEN integer_lt
    ELSE IF name = "LtEqInt" THEN integer_lte
    ELSE IF name = "GtInt" THEN integer_gt
    ELSE IF name = "GtEqInt" THEN integer_gte
    ELSE IF name = "Eq" THEN
        (IF is_int(type_) THEN integer_eq ELSE <<I32Eq>>)
    ELSE IF name = "NotEq" THEN
        (IF is_int(type_) THEN integer_eq \o <<I32Eqz>> ELSE <<I32Eq, I32Eqz>>)
    ELSE <<>>

\* whether emit_binary_operation lowers the operator at these operand types
binary_operator_supported(name, left, right) ==
    \/ name \in {"AddInt", "SubInt", "MultInt", "DivInt", "RemainderInt",
                 "And", "Or", "LtInt", "LtEqInt", "GtInt", "GtEqInt"}
    \/ /\ name \in {"Eq", "NotEq"}
       /\ left.typ = right.typ
       /\ (is_int(left.typ) \/ is_bool(left.typ))

\* the match of emit_binary_operation, around the two lowered operands
binary_emitted(name, type_, l, r, right_id) ==
    Emitted(IF name = "DivInt" THEN emit_div_int(l.insts, r.insts, right_id)
            ELSE IF name = "RemainderInt" THEN emit_remainder_int(l.insts, r.insts)
            ELSE IF name = "And" THEN emit_and(l.insts, r.insts)
            ELSE IF name = "Or" THEN emit_or(l.insts, r.insts)
            ELSE l.insts \o r.insts \o binary_operator(name, type_),
            r.locals, l.panic \/ r.panic)

\* a clause closed by `br 0; end`: the branch leaves the clause, not the case
case_clause_br_0(checks, then_insts) ==
    <<Block(0)>> \o checks \o then_insts \o <<Br(0), End>>
\* a case block that yields 0 after its clauses instead of `unreachable`
case_block_default(clauses_insts) ==
    <<Block(1)>> \o clauses_insts \o <<I32Const(0), End>>

\* emit_case_expression: after each condition, leave the clause on failure
case_condition(condition) == condition \o <<I32Eqz, BrIf(0)>>
\* emit_case_expression: a clause is a block closed by `br 1; end`
case_clause(checks, then_insts) ==
    <<Block(0)>> \o checks \o then_insts \o <<Br(1), End>>
\* emit_case_expression: the case block around the clauses
case_block(clauses_insts) ==
    <<Block(1)>> \o clauses_insts \o <<Unreachable, End>>

RECURSIVE emit_expression(_, _, _, _)
RECURSIVE emit_case_subjects(_, _, _, _, _)
RECURSIVE emit_case_clauses(_, _, _, _, _)
RECURSIVE emit_statement_list(_, _, _, _)
RECURSIVE emit_call_arguments(_, _, _, _)

\* the first loop of emit_case_expression: a new local for every subject;
\* declared holds the ids collected so far and the LocalStore
RECURSIVE case_subject_locals(_, _, _, _)
case_subject_locals(declared, subjects, env, tbl) ==
    IF subjects = <<>> THEN declared
    ELSE case_subject_locals(
             [ids |-> Append(declared.ids, LocalStore_new_id(declared.locals)),
              locals |->
                  LocalStore_insert(
                      declared.locals, LocalStore_new_id(declared.locals),
                      <<"#case#", LocalStore_new_id(declared.locals)>>,
                      from_gleam_type(Head(subjects).typ, env, tbl)),
              panic |-> declared.panic
                        \/ from_gleam_type(Head(subjects).typ, env, tbl) = WPanic],
             Tail(subjects), env, tbl)

\* the second loop: each subject's value is stored in its local
emit_case_subjects(insts, ids, subjects, env, tbl) ==
    IF subjects = <<>> \/ ids = <<>> \/ insts.panic THEN insts
    ELSE emit_case_subjects(
             Extended(insts,
                      emit_expression(Head(subjects), env, insts.locals, tbl),
                      <<LocalSet(Head(ids))>>),
             Tail(ids), Tail(subjects), env, tbl)

\* for (name, local_id) in t.bindings { env.set(name, Binding::Local(local_id)) }
RECURSIVE register_bindings(_, _)
register_bindings(bindings, env) ==
    IF bindings = <<>> THEN env
    ELSE register_bindings(
             Tail(bindings),
             Environment_set(env, Head(bindings)[1],
                             Binding("Local", Head(bindings)[2])))

\* the walk of one translated pattern in BFS order (while let Some(t) = ...);
\* checked holds the clause's instructions so far, inner_env and the LocalStore
RECURSIVE case_pattern_queue(_, _)
case_pattern_queue(checked, queue) ==
    IF queue = <<>> THEN checked
    ELSE case_pattern_queue(
             [checked EXCEPT
                 !.insts = checked.insts \o case_condition(Head(queue).condition)
                           \o Head(queue).assignments,
                 !.env = register_bindings(Head(queue).bindings, checked.env)],
             Tail(queue) \o Head(queue).nested)

\* one pattern of a clause, compiled: translated and walked
case_pattern(checked, compiled, tbl) ==
    case_pattern_queue(
        [checked EXCEPT !.locals = compiled.locals],
        <<translate_pattern(compiled.node, compiled.locals, tbl)>>)

\* for (pattern, subject_id) in clause.pattern.iter().zip(&ids)
RECURSIVE case_clause_patterns(_, _, _, _)
case_clause_patterns(checked, patterns, ids, tbl) ==
    IF patterns = <<>> \/ ids = <<>> THEN checked
    ELSE case_clause_patterns(
             case_pattern(checked,
                          compile_pattern(Head(ids), Head(patterns), tbl,
                                          checked.env, checked.locals),
                          tbl),
             Tail(patterns), Tail(ids), tbl)

\* `// emit code` to `// close clause block`, after the clause's patterns
case_clause_then(insts, checked, then, tbl) ==
    Extended(insts,
             [emit_expression(then, checked.env, checked.locals, tbl) EXCEPT
                 !.insts = case_clause(checked.insts, @)],
             <<>>)

\* for clause in clauses
emit_case_clauses(insts, clauses, ids, env, tbl) ==
    IF clauses = <<>> \/ insts.panic THEN insts
    ELSE emit_case_clauses(
             case_clause_then(
                 insts,
                 case_clause_patterns(
                     [insts |-> <<>>, env |-> Environment_with_enclosing(env),
                      locals |-> insts.locals],
                     Head(clauses).pattern, ids, tbl),
                 Head(clauses).then, tbl),
             Tail(clauses), ids, env, tbl)

\* `// open case block` to `// close case block`, after the subjects are stored
case_clauses_block(stored, clauses, ids, type_, env, tbl) ==
    Extended(stored,
             [emit_case_clauses(
                  Emitted(<<>>, stored.locals,
                          from_gleam_type(type_, env, tbl) = WPanic),
                  clauses, ids, env, tbl)
              EXCEPT !.insts = case_block(@)],
             <<>>)

\* emit_case_expression once the subjects' locals are declared
case_subjects_stored(declared, subjects, clauses, type_, env, tbl) ==
    case_clauses_block(
        emit_case_subjects(Emitted(<<>>, declared.locals, declared.panic),
                           declared.ids, subjects, env, tbl),
        clauses, declared.ids, type_, env, tbl)

emit_case_expression(subjects, clauses, type_, env, locals, tbl) ==
    case_subjects_stored(
        case_subject_locals([ids |-> <<>>, locals |-> locals, panic |-> FALSE],
                            subjects, env, tbl),
        subjects, clauses, type_, env, tbl)

\* emit_binary_operation once the left operand is lowered
binary_right(name, type_, l, right, env, tbl, right_id) ==
    binary_emitted(name, type_, l, emit_expression(right, env, l.locals, tbl),
                   right_id)

\* DivInt declares its temporary local before lowering the operands
emit_binary_operation(env, locals, tbl, name, left, right) ==
    IF ~binary_operator_supported(name, left, right) THEN EmitPanic(locals)
    ELSE binary_right(
             name, left.typ,
             emit_expression(
                 left, env,
                 IF name = "DivInt"
                 THEN LocalStore_insert(locals, LocalStore_new_id(locals),
                                        <<"@fdiv_rhs_temp">>, WInt)
                 ELSE locals,
                 tbl),
             right, env, tbl, LocalStore_new_id(locals))

\* TypedExpr::Call: the `call` of a function with the index held by a binding
\* one past the function's own
emit_call_function_next(binding) ==
    IF binding.kind = "Function" THEN <<Call(binding.id + 1)>> ELSE <<>>

\* TypedExpr::Call: the `call` of a top-level function, from its binding
emit_call_function(binding) ==
    IF binding.kind = "Function" THEN <<Call(binding.id)>> ELSE <<>>

\* TypedExpr::Call: the `call` of a variant's constructor, from its binding
emit_call_constructor(binding, tbl) ==
    IF binding.kind = "Product" /\ Store_get(tbl.products, binding.id) # None
    THEN <<Call(Store_get(tbl.products, binding.id).constructor)>>
    ELSE <<>>

\* TypedExpr::Call: match fun.as_ref(); no instruction stands for an abort
emit_call_target(fun, env, tbl) ==
    IF fun.k = "Var" /\ fun.variant = "ModuleFn"
    THEN emit_call_function(Environment_get(env, fun.name))
    ELSE IF fun.k = "Var" /\ fun.variant = "Record"
    THEN emit_call_constructor(Environment_get(env, fun.name), tbl)
    ELSE <<>>

\* TypedExpr::Call: the arguments lowered from the last to the first
emit_call_arguments_reversed(instructions, args, env, tbl) ==
    IF args = <<>> \/ instructions.panic THEN instructions
    ELSE emit_call_arguments(
             Extended(instructions,
                      emit_expression(args[Len(args)].value, env,
                                      instructions.locals, tbl),
                      <<>>),
             SubSeq(args, 1, Len(args) - 1), env, tbl)

\* TypedExpr::Call: for arg in args, in the order of the call
emit_call_arguments(instructions, args, env, tbl) ==
    IF args = <<>> \/ instructions.panic THEN instructions
    ELSE emit_call_arguments(
             Extended(instructions,
                      emit_expression(Head(args).value, env, instructions.locals,
                                      tbl),
                      <<>>),
             Tail(args), env, tbl)

\* TypedExpr::Call: the arguments, then the call
emit_call(arguments, target) ==
    [arguments EXCEPT !.insts = arguments.insts \o target,
                      !.panic = arguments.panic \/ target = <<>>]

emit_expression(expression, env, locals, tbl) ==
    IF expression.k = "Int" THEN
        Emitted(emit_int(expression.value), locals, FALSE)
    ELSE IF expression.k = "NegateInt" THEN
        emit_negate_int(emit_expression(expression.value, env, locals, tbl))
    ELSE IF expression.k = "NegateBool" THEN
        emit_negate_bool(emit_expression(expression.value, env, locals, tbl))
    ELSE IF expression.k = "Block" THEN
        Extended(Emitted(<<>>, locals, FALSE),
                 emit_statement_list(
                     Emitted(<<>>, locals, FALSE), expression.statements,
                     Environment_with_enclosing(env), tbl),
                 <<>>)
    ELSE IF expression.k = "BinOp" THEN
        emit_binary_operation(env, locals, tbl, expression.name,
                              expression.left, expression.right)
    ELSE IF expression.k = "Var" THEN
        Emitted(emit_var(expression, env, tbl), locals,
                emit_var(expression, env, tbl) = <<>>)
    ELSE IF expression.k = "Case" THEN
        emit_case_expression(expression.subjects, expression.clauses,
                             expression.typ, env, locals, tbl)
    ELSE IF expression.k = "Call" THEN
        emit_call(emit_call_arguments(Emitted(<<>>, locals, FALSE),
                                      expression.args, env, tbl),
                  emit_call_target(expression.fun, env, tbl))
    ELSE EmitPanic(locals)

\* a lowered statement: its instructions and the environment it leaves (env
\* is a &mut parameter of emit_statement and emit_assignment)
Stated(emitted, env) == [emitted |-> emitted, env |-> env]

\* emit_assignment: the new local for the assignment subject
assignment_local(locals, type_) ==
    LocalStore_insert(locals, LocalStore_new_id(locals),
                      <<"#assign#", LocalStore_new_id(locals)>>, type_)

\* emit_assignment, assert: the walk of the translated pattern in BFS order;
\* walked holds the instructions so far and the environment
RECURSIVE assert_pattern_queue(_, _)
assert_pattern_queue(walked, queue) ==
    IF queue = <<>> THEN walked
    ELSE assert_pattern_queue(
             [insts |-> walked.insts \o Head(queue).condition
                        \o <<I32Eqz, BrIf(0)>> \o Head(queue).assignments,
              env |-> register_bindings(Head(queue).bindings, walked.env)],
             Tail(queue) \o Head(queue).nested)

\* the irrefutable walk with the conditions of the assert walk
let_pattern_queue_checked(walked, queue) == assert_pattern_queue(walked, queue)

\* emit_assignment, irrefutable: the walk emits the assignments only
RECURSIVE let_pattern_queue(_, _)
let_pattern_queue(walked, queue) ==
    IF queue = <<>> THEN walked
    ELSE let_pattern_queue(
             [insts |-> walked.insts \o Head(queue).assignments,
              env |-> register_bindings(Head(queue).bindings, walked.env)],
             Tail(queue) \o Head(queue).nested)

\* the two blocks with `br 0` after the walk
assignment_assert_br_0(walked_insts) ==
    <<Block(0), Block(0)>> \o walked_insts
    \o <<Br(0), End, Unreachable, End>>

\* emit_assignment, assert: the two blocks around the walk
assignment_assert(walked_insts) ==
    <<Block(0), Block(0)>> \o walked_insts
    \o <<Br(1), End, Unreachable, End>>

\* emit_assignment: the pattern's instructions and the environment after it
assignment_pattern(kind, translated, env) ==
    IF kind = "Assert"
    THEN [assert_pattern_queue([insts |-> <<>>, env |-> env], <<translated>>)
          EXCEPT !.insts = assignment_assert(@)]
    ELSE let_pattern_queue([insts |-> <<>>, env |-> env], <<translated>>)

\* emit_assignment: the value, local.set, the pattern, local.get
assignment_emitted(id, value, walked, type_) ==
    Stated(Emitted(value.insts \o <<LocalSet(id)>> \o walked.insts
                   \o <<LocalGet(id)>>,
                   value.locals, value.panic \/ type_ = WPanic),
           walked.env)

\* emit_assignment with the value lowered in the environment that holds the
\* pattern's bindings
assignment_compiled_bound(assignment, id, compiled, type_, env, tbl) ==
    assignment_emitted(
        id,
        emit_expression(
            assignment.value,
            assignment_pattern(
                assignment.kind,
                translate_pattern(compiled.node, compiled.locals, tbl), env).env,
            compiled.locals, tbl),
        assignment_pattern(
            assignment.kind,
            translate_pattern(compiled.node, compiled.locals, tbl), env),
        type_)

\* emit_assignment once the pattern is compiled: `// emit value` and after
assignment_compiled(assignment, id, compiled, type_, env, tbl) ==
    assignment_emitted(
        id,
        emit_expression(assignment.value, env, compiled.locals, tbl),
        assignment_pattern(
            assignment.kind,
            translate_pattern(compiled.node, compiled.locals, tbl), env),
        type_)

\* emit_assignment once the type of the subject is known
assignment_typed(assignment, id, type_, env, locals, tbl) ==
    assignment_compiled(
        assignment, id,
        compile_pattern(id, assignment.pattern, tbl, env,
                        assignment_local(locals, type_)),
        type_, env, tbl)

emit_assignment(assignment, env, locals, tbl) ==
    assignment_typed(
        assignment, LocalStore_new_id(locals),
        from_gleam_type(Assignment_type_(assignment), env, tbl),
        env, locals, tbl)

\* emit_statement with the environment of a block's first assignment left to
\* the statements after the block
emit_statement_leaking(statement, env, locals, tbl) ==
    IF statement.k = "Expression"
    THEN Stated(emit_expression(statement.expression, env, locals, tbl),
                IF /\ statement.expression.k = "Block"
                   /\ statement.expression.statements[1].k = "Assignment"
                THEN emit_assignment(statement.expression.statements[1],
                                     env, locals, tbl).env
                ELSE env)
    ELSE IF statement.k = "Assignment"
    THEN emit_assignment(statement, env, locals, tbl)
    ELSE Stated(EmitPanic(locals), env)

\* emit_statement: an expression leaves the environment as it is, an
\* assignment adds its bindings; a `use` statement aborts
emit_statement(statement, env, locals, tbl) ==
    IF statement.k = "Expression"
    THEN Stated(emit_expression(statement.expression, env, locals, tbl), env)
    ELSE IF statement.k = "Assignment"
    THEN emit_assignment(statement, env, locals, tbl)
    ELSE Stated(EmitPanic(locals), env)

\* the statement's instructions with `drop` after the last as well
statement_emitted_dropped(instructions, stated, rest, tbl) ==
    emit_statement_list(Extended(instructions, stated.emitted, <<Drop>>),
                        rest, stated.env, tbl)

\* emit_statement_list: the statement's instructions are appended, with
\* `drop` unless it is the last, and the next statements see its environment;
\* an abort ends the loop
statement_emitted(instructions, stated, rest, tbl) ==
    emit_statement_list(
        Extended(instructions, stated.emitted,
                 IF rest # <<>> THEN <<Drop>> ELSE <<>>),
        rest, stated.env, tbl)

emit_statement_list(instructions, statements, env, tbl) ==
    IF statements = <<>> \/ instructions.panic THEN instructions
    ELSE statement_emitted(
             instructions,
             emit_statement(Head(statements), env, instructions.locals, tbl),
             Tail(statements), tbl)

(***************************************************************************)
(* mod.rs: emit_function and emit_variant_constructor.                     *)
(***************************************************************************)
RECURSIVE function_arguments(_, _, _)
\* for arg in &function.arguments; declared holds env and locals so far
function_arguments(declared, arguments, tbl) ==
    IF arguments = <<>> THEN declared
    ELSE function_arguments(
             [env |-> Environment_set(
                          declared.env, Head(arguments).name,
                          Binding("Local", LocalStore_new_id(declared.locals))),
              locals |->
                  LocalStore_insert(
                      declared.locals, LocalStore_new_id(declared.locals),
                      <<Head(arguments).name>>,
                      from_gleam_type(Head(arguments).type_, declared.env, tbl)),
              panic |-> declared.panic
                        \/ from_gleam_type(Head(arguments).type_, declared.env,
                                           tbl) = WPanic],
             Tail(arguments), tbl)

\* the instructions of a function: its statement list, then `end`
function_instructions(body_insts) == body_insts \o <<End>>

\* the WasmFunction built from the lowered body and the final LocalStore
wasm_function(function_data, declared_panic, body) ==
    LET arity == IF function_data.arity <= Len(body.locals)
                 THEN function_data.arity ELSE Len(body.locals)
    IN [panic |-> declared_panic \/ body.panic,
        name |-> function_data.name,
        function_index |-> function_data.id,
        type_index |-> function_data.signature,
        instructions |-> function_instructions(body.insts),
        argument_names |-> [i \in 1..arity |-> body.locals[i].name],
        locals |-> [i \in 1..(Len(body.locals) - arity) |->
                      <<body.locals[arity + i].name,
                        body.locals[arity + i].wasm_type>>]]

\* the body of emit_function once the arguments are declared
function_body(function, function_data, declared, tbl) ==
    wasm_function(function_data, declared.panic,
                  emit_statement_list(Emitted(<<>>, declared.locals, FALSE),
                                      function.body, declared.env, tbl))

\* the caller has found function_id in the table (function_data)
emit_function(function, function_data, tbl, top_level_env) ==
    function_body(function, function_data,
                  function_arguments(
                      [env |-> Environment_with_enclosing(top_level_env),
                       locals |-> LocalStore_new, panic |-> FALSE],
                      function.arguments, tbl),
                  tbl)

\* the body of a constructor with the tag pushed after the arguments
constructor_instructions_tag_last(tag, arity, type_id) ==
    [i \in 1..arity |-> LocalGet(i - 1)]
    \o integer_const(tag)
    \o <<StructNew(type_id), End>>

\* the body of a constructor
constructor_instructions(tag, arity, type_id) ==
    integer_const(tag)
    \o [i \in 1..arity |-> LocalGet(i - 1)]
    \o <<StructNew(type_id), End>>

emit_variant_constructor(constructor, variant_data, tbl) ==
    LET function == Store_get(tbl.functions, variant_data.constructor)
    IN [panic |-> function = None,
        name |-> IF function = None THEN <<>> ELSE <<"new@">> \o function.name,
        function_index |-> variant_data.constructor,
        type_index |-> IF function = None THEN 0 ELSE function.signature,
        instructions |->
            constructor_instructions(variant_data.tag,
                                     Len(constructor.arguments),
                                     variant_data.type_),
        argument_names |-> [i \in 1..Len(constructor.arguments) |-> <<>>],
        locals |-> <<>>]

(***************************************************************************)
(* mod.rs: construct_module. The state of the build is the symbol table,   *)
(* the root environment, the two output vectors and whether it aborted.    *)
(***************************************************************************)
Build(tbl, env, fns, consts, panic) ==
    [table |-> tbl, env |-> env, functions |-> fns, constants |-> consts,
     panic |-> panic]
Abort(build) == [build EXCEPT !.panic = TRUE]

generate_prelude_types(env) ==
    Environment_set(
        Environment_set(
            Environment_set(env, "Nil", Binding("BuiltinNil", 0)),
            "True", Binding("BuiltinBoolean", 1)),
        "False", Binding("BuiltinBoolean", 0))

\* the state before the first pass
construct_module_start ==
    Build(SymbolTable_new, generate_prelude_types(Environment_new), <<>>, <<>>,
          FALSE)

\* FIRST PASS, one definition
first_pass(build, definition) ==
    IF definition.k = "CustomType" THEN
        [build EXCEPT
            !.table.sums = Store_after_new_id(build.table.sums),
            !.env = Environment_set(build.env, definition.name,
                                    Binding("Sum", Store_new_id(build.table.sums)))]
    ELSE IF definition.k = "Function" THEN
        [build EXCEPT
            !.table.functions = Store_after_new_id(build.table.functions),
            !.env = Environment_set(
                        build.env, definition.name,
                        Binding("Function", Store_new_id(build.table.functions)))]
    ELSE Abort(build)

\* a new type id is issued and, once synthesised, the type is filed under it
with_type(tbl, type_id, name, definition) ==
    [tbl EXCEPT !.types =
        Store_insert(Store_after_new_id(tbl.types), type_id,
                     [id |-> type_id, name |-> name, definition |-> definition])]

\* SECOND PASS, TypedDefinition::Function, with the signature synthesised
second_pass_function_insert(build, f, function_id, function_type_id, definition) ==
    IF WasmTypePanic(definition) THEN Abort(build)
    ELSE [build EXCEPT
            !.table.types =
                with_type(build.table, function_type_id, definition.name,
                          definition).types,
            !.table.functions =
                Store_insert(build.table.functions, function_id,
                             [id |-> function_id, signature |-> function_type_id,
                              name |-> <<f.name>>, arity |-> Len(f.arguments)]),
            !.env = Environment_set(build.env, f.name,
                                    Binding("Function", function_id))]

\* SECOND PASS, TypedDefinition::Function
second_pass_function(build, f) ==
    IF Environment_get(build.env, f.name).kind # "Function" THEN Abort(build)
    ELSE second_pass_function_insert(
             build, f, Environment_get(build.env, f.name).id,
             Store_new_id(build.table.types),
             from_function(f, <<"fun@", f.name>>, Store_new_id(build.table.types),
                           [build.table EXCEPT
                               !.types = Store_after_new_id(build.table.types)],
                           build.env))

\* the label of a variant's field: its own, or arg<i>
field_label(arg, i) == IF arg.label = <<>> THEN <<"arg", i>> ELSE arg.label

\* the fields of a Composite product
product_fields(variant, env, tbl) ==
    [j \in 1..Len(variant.arguments) |->
        [name |-> field_label(variant.arguments[j], j - 1),
         index |-> j - 1,
         type_ |-> from_gleam_type(variant.arguments[j].type_, env, tbl)]]

\* the variants loop keeps the build and the product ids pushed so far
Variants(build, product_ids) == [build |-> build, product_ids |-> product_ids]

\* one variant, `// type`: the product type
variant_type(build, t, variant, tag, sum_type_id, product_type_id) ==
    LET definition ==
            from_product_type(
                variant, <<"typ@", t.name, variant.name>>, product_type_id, tag,
                sum_type_id,
                [build.table EXCEPT !.types = Store_after_new_id(build.table.types)],
                build.env)
    IN [build EXCEPT
            !.table = with_type(build.table, product_type_id,
                                <<"typ@", t.name, variant.name>>, definition),
            !.panic = WasmTypePanic(definition)]

\* one variant, `// constructor signature` and `// constructor`
variant_constructor(build, t, variant, product_type_id, constructor_sig_id, constructor_id) ==
    LET definition ==
            from_product_type_constructor(
                variant, <<"new@", t.name, variant.name>>, product_type_id,
                constructor_sig_id,
                [build.table EXCEPT !.types = Store_after_new_id(build.table.types)],
                build.env)
    IN IF build.panic THEN build
       ELSE [build EXCEPT
                !.table.types =
                    with_type(build.table, constructor_sig_id,
                              <<"new@", t.name, variant.name>>, definition).types,
                !.table.functions =
                    Store_insert(Store_after_new_id(build.table.functions),
                                 constructor_id,
                                 [id |-> constructor_id,
                                  signature |-> constructor_sig_id,
                                  name |-> <<variant.name>>,
                                  arity |-> Len(variant.arguments)]),
                !.panic = WasmTypePanic(definition)]

\* a zero-argument variant made Simple on the module's first global, whatever
\* global id was issued for it
variant_simple_shared(build, t, variant, sum_id, tag, product_type_id, constructor_id, product_id, global_id) ==
    [build EXCEPT
        !.table.constants =
            Store_insert(Store_after_new_id(build.table.constants), 0,
                         [id |-> 0,
                          name |-> <<"global@", t.name, variant.name>>,
                          type_ |-> product_type_id]),
        !.constants =
            Append(build.constants,
                   [name |-> <<"global@", t.name, variant.name>>,
                    type_index |-> product_type_id,
                    global_index |-> 0,
                    initializer |-> <<Call(constructor_id)>>]),
        !.table.products =
            Store_insert(Store_after_new_id(build.table.products), product_id,
                         [id |-> product_id,
                          name |-> <<"product@", t.name, variant.name>>,
                          type_ |-> product_type_id, parent |-> sum_id,
                          tag |-> tag, constructor |-> constructor_id,
                          kind |-> "Simple", instance |-> 0,
                          fields |-> <<>>]),
        !.env = Environment_set(build.env, variant.name,
                                Binding("Product", product_id))]

\* one variant, `// product` of a zero-argument variant: Simple, with its global
variant_simple(build, t, variant, sum_id, tag, product_type_id, constructor_id, product_id, global_id) ==
    [build EXCEPT
        !.table.constants =
            Store_insert(Store_after_new_id(build.table.constants), global_id,
                         [id |-> global_id,
                          name |-> <<"global@", t.name, variant.name>>,
                          type_ |-> product_type_id]),
        !.constants =
            Append(build.constants,
                   [name |-> <<"global@", t.name, variant.name>>,
                    type_index |-> product_type_id,
                    global_index |-> global_id,
                    initializer |-> <<Call(constructor_id)>>]),
        !.table.products =
            Store_insert(Store_after_new_id(build.table.products), product_id,
                         [id |-> product_id,
                          name |-> <<"product@", t.name, variant.name>>,
                          type_ |-> product_type_id, parent |-> sum_id,
                          tag |-> tag, constructor |-> constructor_id,
                          kind |-> "Simple", instance |-> global_id,
                          fields |-> <<>>]),
        !.env = Environment_set(build.env, variant.name,
                                Binding("Product", product_id))]

\* one variant, `// product` of a variant with arguments: Composite
variant_composite(build, t, variant, sum_id, tag, product_type_id, constructor_id, product_id, fields) ==
    IF \E j \in 1..Len(fields) : fields[j].type_ = WPanic THEN Abort(build)
    ELSE [build EXCEPT
            !.table.products =
                Store_insert(Store_after_new_id(build.table.products), product_id,
                             [id |-> product_id,
                              name |-> <<"product@", t.name, variant.name>>,
                              type_ |-> product_type_id, parent |-> sum_id,
                              tag |-> tag, constructor |-> constructor_id,
                              kind |-> "Composite", instance |-> 0,
                              fields |-> fields]),
            !.env = Environment_set(build.env, variant.name,
                                    Binding("Product", product_id))]

\* one variant, `// product`
variant_product(build, t, variant, sum_id, tag, product_type_id, constructor_id) ==
    IF build.panic THEN build
    ELSE IF variant.arguments = <<>>
    THEN variant_simple(build, t, variant, sum_id, tag, product_type_id,
                        constructor_id, Store_new_id(build.table.products),
                        Store_new_id(build.table.constants))
    ELSE variant_composite(
             build, t, variant, sum_id, tag, product_type_id, constructor_id,
             Store_new_id(build.table.products),
             product_fields(variant, build.env,
                            [build.table EXCEPT
                                !.products =
                                    Store_after_new_id(build.table.products)]))

\* product_ids.push(product_id), unless the variant aborted
variant_pushed(build, product_ids, product_id) ==
    Variants(build, IF build.panic THEN product_ids
                    ELSE Append(product_ids, product_id))

\* one variant, tagged with the number of products of the whole module so far
second_pass_variant_counted(build, t, sum_id, sum_type_id, tag, variant, product_ids) ==
    variant_pushed(
        variant_product(
            variant_constructor(
                variant_type(build, t, variant,
                             Store_new_id(build.table.products), sum_type_id,
                             Store_new_id(build.table.types)),
                t, variant, Store_new_id(build.table.types),
                Store_new_id(build.table.types) + 1,
                Store_new_id(build.table.functions)),
            t, variant, sum_id, Store_new_id(build.table.products),
            Store_new_id(build.table.types),
            Store_new_id(build.table.functions)),
        product_ids, Store_new_id(build.table.products))

\* SECOND PASS, one variant of a custom type (the body of the variants loop);
\* the ids are those the stores issue in the order of the new_id calls
second_pass_variant(build, t, sum_id, sum_type_id, tag, variant, product_ids) ==
    variant_pushed(
        variant_product(
            variant_constructor(
                variant_type(build, t, variant, tag, sum_type_id,
                             Store_new_id(build.table.types)),
                t, variant, Store_new_id(build.table.types),
                Store_new_id(build.table.types) + 1,
                Store_new_id(build.table.functions)),
            t, variant, sum_id, tag, Store_new_id(build.table.types),
            Store_new_id(build.table.functions)),
        product_ids, Store_new_id(build.table.products))

RECURSIVE second_pass_variants(_, _, _, _, _)
\* for (tag, variant) in t.constructors.iter().enumerate()
second_pass_variants(looped, t, sum_id, sum_type_id, tag) ==
    IF tag >= Len(t.constructors) \/ looped.build.panic THEN looped
    ELSE second_pass_variants(
             second_pass_variant(looped.build, t, sum_id, sum_type_id, tag,
                                 t.constructors[tag + 1], looped.product_ids),
             t, sum_id, sum_type_id, tag + 1)

\* table.sums.insert(sum_id, sum) after the variants loop
sum_inserted(looped, t, sum_id, sum_type_id) ==
    IF looped.build.panic THEN looped.build
    ELSE [looped.build EXCEPT
            !.table.sums =
                Store_insert(looped.build.table.sums, sum_id,
                             [id |-> sum_id, name |-> <<t.name>>,
                              type_ |-> sum_type_id,
                              variants |-> looped.product_ids])]

\* the sum type is filed and the type's name bound again before the variants loop
sum_type_inserted(build, t, sum_id, sum_type_id) ==
    [build EXCEPT
        !.table = with_type(build.table, sum_type_id, <<"sum@", t.name>>,
                            [name |-> <<"sum@", t.name>>, id |-> sum_type_id,
                             definition |-> [k |-> "Sum"]]),
        !.env = Environment_set(build.env, t.name, Binding("Sum", sum_id))]

\* the second pass of a custom type that lets type parameters through
second_pass_custom_type_generic(build, t) ==
    IF Environment_get(build.env, t.name).kind # "Sum"
    THEN Abort(build)
    ELSE sum_inserted(
             second_pass_variants(
                 Variants(sum_type_inserted(build, t,
                                            Environment_get(build.env, t.name).id,
                                            Store_new_id(build.table.types)),
                          <<>>),
                 t, Environment_get(build.env, t.name).id,
                 Store_new_id(build.table.types), 0),
             t, Environment_get(build.env, t.name).id,
             Store_new_id(build.table.types))

\* SECOND PASS, TypedDefinition::CustomType
second_pass_custom_type(build, t) ==
    IF t.parameters # <<>> \/ Environment_get(build.env, t.name).kind # "Sum"
    THEN Abort(build)
    ELSE sum_inserted(
             second_pass_variants(
                 Variants(sum_type_inserted(build, t,
                                            Environment_get(build.env, t.name).id,
                                            Store_new_id(build.table.types)),
                          <<>>),
                 t, Environment_get(build.env, t.name).id,
                 Store_new_id(build.table.types), 0),
             t, Environment_get(build.env, t.name).id,
             Store_new_id(build.table.types))

\* SECOND PASS, one definition
second_pass(build, definition) ==
    IF definition.k = "Function" THEN second_pass_function(build, definition)
    ELSE IF definition.k = "CustomType"
    THEN second_pass_custom_type(build, definition)
    ELSE Abort(build)

\* functions.push(function), unless emitting it aborted
function_pushed(build, function) ==
    IF function.panic THEN Abort(build)
    ELSE [build EXCEPT !.functions = Append(build.functions, function)]

RECURSIVE third_pass_constructors(_, _)
\* for variant in &c.constructors
third_pass_constructors(build, constructors) ==
    IF constructors = <<>> \/ build.panic THEN build
    ELSE IF \/ Environment_get(build.env, Head(constructors).name).kind # "Product"
            \/ Store_get(build.table.products,
                         Environment_get(build.env, Head(constructors).name).id)
               = None
    THEN Abort(build)
    ELSE third_pass_constructors(
             function_pushed(
                 build,
                 emit_variant_constructor(
                     Head(constructors),
                     Store_get(build.table.products,
                               Environment_get(build.env,
                                               Head(constructors).name).id),
                     build.table)),
             Tail(constructors))

\* the pass that generates the bodies, TypedDefinition::Function
third_pass_function(build, f) ==
    IF \/ Environment_get(build.env, f.name).kind # "Function"
       \/ Store_get(build.table.functions, Environment_get(build.env, f.name).id)
          = None
    THEN Abort(build)
    ELSE function_pushed(
             build,
             emit_function(f,
                           Store_get(build.table.functions,
                                     Environment_get(build.env, f.name).id),
                           build.table, build.env))

\* the pass that generates the bodies, one definition
third_pass(build, definition) ==
    IF definition.k = "Function" THEN third_pass_function(build, definition)
    ELSE IF definition.k = "CustomType"
    THEN third_pass_constructors(build, definition.constructors)
    ELSE Abort(build)

\* the types of the WasmModule: table.types.as_list().map(|x| x.definition)
module_types(tbl) ==
    LET lst == Store_as_list(tbl.types) IN [i \in 1..Len(lst) |-> lst[i].definition]

\* one step of pass 1, 2 or 3
pass_step(pass, build, definition) ==
    IF pass = 1 THEN first_pass(build, definition)
    ELSE IF pass = 2 THEN second_pass(build, definition)
    ELSE third_pass(build, definition)

RECURSIVE run_passes(_, _, _, _)
\* the three loops over ast.definitions, from pass `pass` at `remaining`
run_passes(pass, build, remaining, definitions) ==
    IF build.panic THEN build
    ELSE IF remaining = <<>> THEN
        (IF pass = 3 THEN build
         ELSE run_passes(pass + 1, build, definitions, definitions))
    ELSE run_passes(pass, pass_step(pass, build, Head(remaining)),
                    Tail(remaining), definitions)

\* construct_module, run to its end
construct_module(definitions) ==
    run_passes(1, construct_module_start, definitions, definitions)

(***************************************************************************)
(* encoder.rs: emit. Each section is a record [id, ...] appended to the    *)
(* module in the order of the calls of module.section.                     *)
(***************************************************************************)
\* the list left in the order it has
sort_by_key_skipped(list, field) == list

\* stable insertion, as slice::sort_by_key orders equal keys
RECURSIVE sort_insert(_, _, _)
sort_insert(sorted, item, field) ==
    IF sorted = <<>> THEN <<item>>
    ELSE IF sorted[Len(sorted)][field] <= item[field] THEN Append(sorted, item)
    ELSE Append(sort_insert(SubSeq(sorted, 1, Len(sorted) - 1), item, field),
                sorted[Len(sorted)])
RECURSIVE sort_from(_, _, _)
sort_from(sorted, rest, field) ==
    IF rest = <<>> THEN sorted
    ELSE sort_from(sort_insert(sorted, Head(rest), field), Tail(rest), field)
sort_by_key(list, field) == sort_from(<<>>, list, field)

\* WasmTypeImpl::to_val_type
to_val_type(t) ==
    IF t.t = "Int" THEN [v |-> "I32", nullable |-> FALSE, heap_type |-> 0]
    ELSE IF t.t = "Float" THEN [v |-> "F64", nullable |-> FALSE, heap_type |-> 0]
    ELSE IF t.t = "Bool" THEN [v |-> "I32", nullable |-> FALSE, heap_type |-> 0]
    ELSE IF t.t = "Nil" THEN [v |-> "I32", nullable |-> FALSE, heap_type |-> 0]
    ELSE [v |-> "Ref", nullable |-> FALSE, heap_type |-> t.ref]

FieldType(val_type) == [element_type |-> val_type, mutable |-> FALSE]
tag_field == FieldType([v |-> "I32", nullable |-> FALSE, heap_type |-> 0])

\* the struct fields of a Product with the tag pushed after the fields
product_field_list_tag_last(fields) ==
    [i \in 1..Len(fields) |-> FieldType(to_val_type(fields[i]))] \o <<tag_field>>

\* the struct fields of a Product: the tag, then the variant's fields
product_field_list(fields) ==
    <<tag_field>> \o [i \in 1..Len(fields) |-> FieldType(to_val_type(fields[i]))]

\* one entry of the type section
encode_type(type_) ==
    IF type_.definition.k = "Function" THEN
        [k |-> "func",
         parameters |-> [i \in 1..Len(type_.definition.parameters) |->
                            to_val_type(type_.definition.parameters[i])],
         returns |-> <<to_val_type(type_.definition.returns)>>]
    ELSE IF type_.definition.k = "Sum" THEN
        [k |-> "sub", is_final |-> FALSE, supertype_idx |-> <<>>,
         fields |-> <<tag_field>>]
    ELSE
        [k |-> "sub", is_final |-> TRUE,
         supertype_idx |-> <<type_.definition.supertype_index>>,
         fields |-> product_field_list(type_.definition.fields)]

start_function_type == [k |-> "func", parameters |-> <<>>, returns |-> <<>>]

\* types, sorted by id, and the start function's type after them
type_section(types) ==
    [id |-> "Type",
     entries |-> [i \in 1..Len(types) |-> encode_type(types[i])]
                 \o <<start_function_type>>]

\* functions, sorted by function_index, and the start function after them
function_section(fns, init_function_type_idx) ==
    [id |-> "Function",
     entries |-> [i \in 1..Len(fns) |-> fns[i].type_index]
                 \o <<init_function_type_idx>>]

\* globals, sorted by global_index
global_section(globals) ==
    [id |-> "Global",
     entries |-> [i \in 1..Len(globals) |->
                    [val_type |-> [v |-> "Ref", nullable |-> TRUE,
                                   heap_type |-> globals[i].type_index],
                     mutable |-> TRUE,
                     init |-> <<Ins("RefNull", globals[i].type_index)>>]]]

start_section(init_function_idx) ==
    [id |-> "Start", function_index |-> init_function_idx]

\* the segment with the index after the last function listed as well
element_section_through(fns) ==
    [id |-> "Element",
     segments |-> <<[mode |-> "Declared",
                     elements |-> [i \in 1..(Len(fns) + 1) |-> i - 1]]>>]

element_section(fns) ==
    [id |-> "Element",
     segments |-> <<[mode |-> "Declared",
                     elements |-> [i \in 1..Len(fns) |-> i - 1]]>>]

\* a start function body that sets the first global only
start_function_body_first(globals) ==
    IF globals = <<>> THEN <<>>
    ELSE Head(globals).initializer \o <<GlobalSet(Head(globals).global_index)>>

RECURSIVE start_function_body(_)
\* each global's initializer, then global.set of it
start_function_body(globals) ==
    IF globals = <<>> THEN <<>>
    ELSE Head(globals).initializer \o <<GlobalSet(Head(globals).global_index)>>
         \o start_function_body(Tail(globals))

code_section(fns, globals) ==
    [id |-> "Code",
     entries |->
        [i \in 1..Len(fns) |->
            [locals |-> [j \in 1..Len(fns[i].locals) |->
                            <<1, to_val_type(fns[i].locals[j][2])>>],
             instructions |-> fns[i].instructions]]
        \o <<[locals |-> <<>>,
              instructions |-> start_function_body(globals) \o <<End>>]>>]

\* the local names with the body locals numbered from 0
local_names_from_0(func) ==
    [j \in 1..Len(func.argument_names) |-> <<j - 1, func.argument_names[j]>>]
    \o [j \in 1..Len(func.locals) |-> <<j - 1, func.locals[j][1]>>]

\* the local names of one function: arguments first, then the body locals
local_names(func) ==
    [j \in 1..Len(func.argument_names) |-> <<j - 1, func.argument_names[j]>>]
    \o [j \in 1..Len(func.locals) |->
            <<j - 1 + Len(func.argument_names), func.locals[j][1]>>]

name_section(m, init_function_idx, init_function_type_idx) ==
    [id |-> "Name",
     function_names |->
        [i \in 1..Len(m.functions) |->
            <<m.functions[i].function_index, m.functions[i].name>>]
        \o <<<<init_function_idx, <<"init@">>>>>>,
     local_names |->
        [i \in 1..Len(m.functions) |->
            <<m.functions[i].function_index, local_names(m.functions[i])>>]
        \o <<<<init_function_idx, <<>>>>>>,
     type_names |->
        [i \in 1..Len(m.types) |-> <<m.types[i].id, m.types[i].name>>]
        \o <<<<init_function_type_idx, <<"typ@init">>>>>>,
     global_names |->
        [i \in 1..Len(m.constants) |->
            <<m.constants[i].global_index, m.constants[i].name>>]]

(***************************************************************************)
(* The WebAssembly machine that runs an emitted function body. A label is  *)
(* pushed by block and if; an instruction may only consume operands pushed *)
(* since the innermost label was entered, and a block ends with exactly    *)
(* its result on top of its entry height: code that breaks either rule     *)
(* does not validate, and the run ends "invalid".                          *)
(* Operand values stay far inside the 32-bit range in this model.          *)
(***************************************************************************)
Abs(x) == IF x < 0 THEN -x ELSE x
\* i32.div_s and i32.rem_s for a non-zero divisor: truncation towards zero
DivS(a, b) ==
    LET q == Abs(a) \div Abs(b) IN IF (a < 0) # (b < 0) THEN -q ELSE q
RemS(a, b) == a - b * DivS(a, b)
Bool32(b) == IF b THEN 1 ELSE 0

BinaryResult(op, a, b) ==
    IF op = "I32Add" THEN a + b
    ELSE IF op = "I32Sub" THEN a - b
    ELSE IF op = "I32Mul" THEN a * b
    ELSE IF op = "I32Eq" THEN Bool32(a = b)
    ELSE IF op = "I32LtS" THEN Bool32(a < b)
    ELSE IF op = "I32LeS" THEN Bool32(a <= b)
    ELSE IF op = "I32GtS" THEN Bool32(a > b)
    ELSE Bool32(a >= b)

BinaryOps == {"I32Add", "I32Sub", "I32Mul", "I32Eq", "I32LtS", "I32LeS",
              "I32GtS", "I32GeS"}

RECURSIVE ScanEnd(_, _, _, _)
\* the position of the `end` (or, with stopAtElse, the `else`) that closes the
\* block whose body starts at i; depth counts the blocks opened since
ScanEnd(c, i, depth, stopAtElse) ==
    IF i > Len(c) THEN Len(c) + 1
    ELSE IF c[i].op \in {"Block", "If"} THEN ScanEnd(c, i + 1, depth + 1, stopAtElse)
    ELSE IF c[i].op = "End" THEN
        (IF depth = 0 THEN i ELSE ScanEnd(c, i + 1, depth - 1, stopAtElse))
    ELSE IF c[i].op = "Else" /\ depth = 0 /\ stopAtElse THEN i
    ELSE ScanEnd(c, i + 1, depth, stopAtElse)
MatchEnd(c, i) == ScanEnd(c, i + 1, 0, FALSE)
MatchElseOrEnd(c, i) == ScanEnd(c, i + 1, 0, TRUE)

Running == phase = "run" /\ status = "running" /\ pc \in 1..Len(code)
Instr == code[pc]
CurBase == IF labels = <<>> THEN 0 ELSE labels[Len(labels)].base
Avail == Len(stack) - CurBase
Top(n) == SubSeq(stack, Len(stack) - n + 1, Len(stack))
Popped(n) == SubSeq(stack, 1, Len(stack) - n)
Label(base, arity, cont) == [base |-> base, arity |-> arity, cont |-> cont]

Fixed == UNCHANGED <<fn, argv, code, fnLocals, global_values, moduleVars>>

\* the run ends here: "done", "trap" or "invalid"
Stop(st) ==
    /\ status' = st
    /\ phase' = "halt"
    /\ trace' = Append(trace, pc)
    /\ UNCHANGED <<pc, stack, frame, labels>>

\* the instruction at pc completes and control moves to next
Go(next, newStack, newFrame, newLabels) ==
    /\ pc' = next
    /\ stack' = newStack
    /\ frame' = newFrame
    /\ labels' = newLabels
    /\ trace' = Append(trace, pc)
    /\ UNCHANGED <<status, phase>>

ExecConst ==
    /\ Running /\ Instr.op = "I32Const"
    /\ Go(pc + 1, Append(stack, Instr.n), frame, labels)
    /\ Fixed

ExecLocalGet ==
    /\ Running /\ Instr.op = "LocalGet"
    /\ IF Instr.n >= Len(frame) THEN Stop("invalid")
       ELSE Go(pc + 1, Append(stack, frame[Instr.n + 1]), frame, labels)
    /\ Fixed

ExecLocalSet ==
    /\ Running /\ Instr.op \in {"LocalSet", "LocalTee"}
    /\ IF Avail < 1 \/ Instr.n >= Len(frame) THEN Stop("invalid")
       ELSE Go(pc + 1,
               IF Instr.op = "LocalTee" THEN stack ELSE Popped(1),
               [frame EXCEPT ![Instr.n + 1] = stack[Len(stack)]],
               labels)
    /\ Fixed

ExecDrop ==
    /\ Running /\ Instr.op = "Drop"
    /\ IF Avail < 1 THEN Stop("invalid")
       ELSE Go(pc + 1, Popped(1), frame, labels)
    /\ Fixed

ExecEqz ==
    /\ Running /\ Instr.op = "I32Eqz"
    /\ IF Avail < 1 THEN Stop("invalid")
       ELSE Go(pc + 1, Append(Popped(1), Bool32(stack[Len(stack)] = 0)),
               frame, labels)
    /\ Fixed

ExecBinary ==
    /\ Running /\ Instr.op \in BinaryOps
    /\ IF Avail < 2 THEN Stop("invalid")
       ELSE Go(pc + 1,
               Append(Popped(2),
                      BinaryResult(Instr.op, stack[Len(stack) - 1],
                                   stack[Len(stack)])),
               frame, labels)
    /\ Fixed

\* i32.div_s and i32.rem_s trap on a zero divisor
ExecDivRem ==
    /\ Running /\ Instr.op \in {"I32DivS", "I32RemS"}
    /\ IF Avail < 2 THEN Stop("invalid")
       ELSE IF stack[Len(stack)] = 0 THEN Stop("trap")
       ELSE Go(pc + 1,
               Append(Popped(2),
                      IF Instr.op = "I32DivS"
                      THEN DivS(stack[Len(stack) - 1], stack[Len(stack)])
                      ELSE RemS(stack[Len(stack) - 1], stack[Len(stack)])),
               frame, labels)
    /\ Fixed

ExecBlock ==
    /\ Running /\ Instr.op = "Block"
    /\ Go(pc + 1, stack, frame,
          Append(labels, Label(Len(stack), Instr.n, MatchEnd(code, pc) + 1)))
    /\ Fixed

ExecIf ==
    /\ Running /\ Instr.op = "If"
    /\ IF Avail < 1 THEN Stop("invalid")
       ELSE LET other == MatchElseOrEnd(code, pc)
                entered == Append(labels, Label(Len(stack) - 1, Instr.n,
                                                MatchEnd(code, pc) + 1))
            IN IF stack[Len(stack)] # 0
               THEN Go(pc + 1, Popped(1), frame, entered)
               ELSE IF other <= Len(code) /\ code[other].op = "Else"
               THEN Go(other + 1, Popped(1), frame, entered)
               ELSE Go(other, Popped(1), frame, entered)
    /\ Fixed

\* `else` reached from the then-branch: the if block is left
ExecElse ==
    /\ Running /\ Instr.op = "Else"
    /\ IF labels = <<>> THEN Stop("invalid")
       ELSE LET l == labels[Len(labels)] IN
            IF Len(stack) # l.base + l.arity THEN Stop("invalid")
            ELSE Go(l.cont, stack, frame, SubSeq(labels, 1, Len(labels) - 1))
    /\ Fixed

\* `end` of a block or if, or the function's final `end`
ExecEnd ==
    /\ Running /\ Instr.op = "End"
    /\ IF labels = <<>>
       THEN (IF Len(stack) = 1 THEN Stop("done") ELSE Stop("invalid"))
       ELSE LET l == labels[Len(labels)] IN
            IF Len(stack) # l.base + l.arity THEN Stop("invalid")
            ELSE Go(pc + 1, stack, frame, SubSeq(labels, 1, Len(labels) - 1))
    /\ Fixed

\* the branch to the n-th enclosing label, with cond values already popped
Branch(n, st) ==
    IF n >= Len(labels) THEN Stop("invalid")
    ELSE LET l == labels[Len(labels) - n] IN
         IF Len(st) - CurBase < l.arity THEN Stop("invalid")
         ELSE Go(l.cont,
                 SubSeq(st, 1, l.base) \o SubSeq(st, Len(st) - l.arity + 1, Len(st)),
                 frame,
                 SubSeq(labels, 1, Len(labels) - n - 1))

ExecBr ==
    /\ Running /\ Instr.op = "Br"
    /\ Branch(Instr.n, stack)
    /\ Fixed

ExecBrIf ==
    /\ Running /\ Instr.op = "BrIf"
    /\ IF Avail < 1 THEN Stop("invalid")
       ELSE IF stack[Len(stack)] # 0 THEN Branch(Instr.n, Popped(1))
       ELSE Go(pc + 1, Popped(1), frame, labels)
    /\ Fixed

ExecUnreachable ==
    /\ Running /\ Instr.op = "Unreachable"
    /\ Stop("trap")
    /\ Fixed

Exec ==
    \/ ExecConst \/ ExecLocalGet \/ ExecLocalSet \/ ExecDrop \/ ExecEqz
    \/ ExecBinary \/ ExecDivRem \/ ExecBlock \/ ExecIf \/ ExecElse \/ ExecEnd
    \/ ExecBr \/ ExecBrIf \/ ExecUnreachable

(***************************************************************************)
(* The typed functions the model lowers and runs, and their arguments.     *)
(***************************************************************************)
ArgInts == (0..MaxArg) \cup {-7, 7}
Argument(name, type_) == [name |-> name, type_ |-> type_]
\* fn f(a: Int, b: Int) { body }
IntFunction(body) ==
    [k |-> "Function", name |-> "f",
     arguments |-> <<Argument("a", IntType), Argument("b", IntType)>>,
     return_type |-> body.typ,
     body |-> <<ExprStatement(body)>>]
\* fn f(p: Bool, q: Bool) { body }
BoolFunction(body) ==
    [k |-> "Function", name |-> "f",
     arguments |-> <<Argument("p", BoolType), Argument("q", BoolType)>>,
     return_type |-> body.typ,
     body |-> <<ExprStatement(body)>>]

VarA == LocalVar("a", IntType)
VarB == LocalVar("b", IntType)
VarP == LocalVar("p", BoolType)
VarQ == LocalVar("q", BoolType)

IntAtoms == {VarA, VarB} \cup {IntLit(n) : n \in 0..MaxLit}
ArithOps == {"DivInt", "RemainderInt", "AddInt", "SubInt", "MultInt"}
CompareOps == {"LtInt", "LtEqInt", "GtInt", "GtEqInt", "Eq", "NotEq"}
\* a / b + a % b
DivMod == IntOp("AddInt", IntOp("DivInt", VarA, VarB),
                IntOp("RemainderInt", VarA, VarB))
ArithPrograms ==
    {IntOp(op, x, y) : op \in ArithOps, x \in IntAtoms, y \in IntAtoms}
    \cup {BoolOp(op, VarA, y) : op \in CompareOps, y \in IntAtoms}
    \cup {DivMod, NegateInt(VarA), NegateInt(IntOp("SubInt", VarA, VarB)),
          IntOp("DivInt", IntOp("DivInt", VarA, VarB), VarB),
          IntOp("DivInt", IntLit(7), VarB)}

BoolAtoms == {VarP, VarQ, TrueExpr, FalseExpr}
BoolOperands ==
    BoolAtoms
    \cup {NegateBool(VarP), NegateBool(VarQ)}
    \cup {BoolOp(op, l, r) : op \in {"And", "Or"},
                             l \in {VarP, VarQ}, r \in {VarP, VarQ}}
    \cup {BoolOp("Eq", VarP, VarQ), BoolOp("NotEq", VarP, VarQ)}
LogicPrograms ==
    {BoolOp(op, l, r) : op \in {"And", "Or"}, l \in BoolOperands,
                        r \in BoolOperands}

\* the body of clause i: the first variable its patterns bind, or the literal
\* 2 + i (no argument has that value)
ClauseThen(pattern, i) ==
    LET vs == {j \in 1..Len(pattern) : pattern[j].k = "Variable"} IN
    IF vs = {} THEN IntLit(2 + i)
    ELSE LocalVar(pattern[CHOOSE j \in vs : \A h \in vs : j <= h].name, IntType)
MakeCase(subjects, patterns) ==
    CaseExpr(subjects,
             [i \in 1..Len(patterns) |-> Clause(patterns[i],
                                                ClauseThen(patterns[i], i))],
             IntType)
ClauseLists(pats) == UNION {[1..n -> pats] : n \in 1..MaxClauses}
Patterns1 ==
    {<<PatternInt(n)>> : n \in 0..MaxLit}
    \cup {<<PatternDiscard>>, <<PatternVariable("x")>>}
Patterns2 ==
    {<<p1, p2>> : p1 \in {PatternInt(0), PatternDiscard},
                  p2 \in {PatternInt(MaxLit), PatternVariable("y")}}
CasePrograms ==
    {MakeCase(<<VarA>>, ps) : ps \in ClauseLists(Patterns1)}
    \cup {MakeCase(<<VarA, VarB>>, ps) : ps \in ClauseLists(Patterns2)}

\* case a { 0 -> case b { 0 -> 3  _ -> 4 }  _ -> 5 }
NestedCase ==
    CaseExpr(<<VarA>>,
             <<Clause(<<PatternInt(0)>>,
                      CaseExpr(<<VarB>>,
                               <<Clause(<<PatternInt(0)>>, IntLit(3)),
                                 Clause(<<PatternDiscard>>, IntLit(4))>>,
                               IntType)),
               Clause(<<PatternDiscard>>, IntLit(5))>>,
             IntType)
\* case a == 0 && a < b { True -> .. } is not expressible without constructor
\* patterns; the mixed programs nest the other constructs in each other
MixedPrograms ==
    {NestedCase,
     \* case a + b { 0 -> 3  x -> x }
     MakeCase(<<IntOp("AddInt", VarA, VarB)>>,
              <<<<PatternInt(0)>>, <<PatternVariable("x")>>>>),
     \* case a { 0 -> 3 } + b
     IntOp("AddInt", MakeCase(<<VarA>>, <<<<PatternInt(0)>>>>), VarB),
     \* a == 0 && a < b
     BoolOp("And", BoolOp("Eq", VarA, IntLit(0)), BoolOp("LtInt", VarA, VarB)),
     \* a == 0 || case b { 0 -> 3  y -> y } == 3
     BoolOp("Or", BoolOp("Eq", VarA, IntLit(0)),
            BoolOp("Eq", MakeCase(<<VarB>>, <<<<PatternInt(0)>>,
                                              <<PatternVariable("y")>>>>),
                   IntLit(3))),
     \* { a  b }
     BlockExpr(<<ExprStatement(VarA), ExprStatement(VarB)>>),
     \* { a + b  case a { 0 -> 3  _ -> 4 }  -b }
     BlockExpr(<<ExprStatement(IntOp("AddInt", VarA, VarB)),
                 ExprStatement(MakeCase(<<VarA>>, <<<<PatternInt(0)>>,
                                                    <<PatternDiscard>>>>)),
                 ExprStatement(NegateInt(VarB))>>),
     \* case a { 0 -> { b  a / b }  _ -> 4 }
     CaseExpr(<<VarA>>,
              <<Clause(<<PatternInt(0)>>,
                       BlockExpr(<<ExprStatement(VarB),
                                   ExprStatement(IntOp("DivInt", VarA, VarB))>>)),
                Clause(<<PatternDiscard>>, IntLit(4))>>,
              IntType)}

Functions ==
    {IntFunction(e) : e \in ArithPrograms \cup CasePrograms \cup MixedPrograms}
    \cup {BoolFunction(e) : e \in LogicPrograms}

ArgumentValues(f) ==
    IF f.arguments[1].type_ = IntType
    THEN {<<a, b>> : a \in ArgInts, b \in ArgInts}
    ELSE {<<p, q>> : p \in {0, 1}, q \in {0, 1}}

(***************************************************************************)
(* Spec: one function is lowered, as the only definition of its module,    *)
(* and its body is run on the arguments.                                   *)
(***************************************************************************)
ModuleIdle ==
    /\ ast = <<>>
    /\ cursor = 0
    /\ table = SymbolTable_new
    /\ root_environment = Environment_new
    /\ functions = <<>>
    /\ constants = <<>>
    /\ wasm_module = [functions |-> <<>>, constants |-> <<>>, types |-> <<>>]
    /\ sections = <<>>
    /\ written = <<>>

MachineIdle ==
    /\ code = <<>>
    /\ fnLocals = <<>>
    /\ pc = 0
    /\ stack = <<>>
    /\ frame = <<>>
    /\ labels = <<>>
    /\ trace = <<>>
    /\ global_values = <<>>

Init ==
    /\ fn \in Functions
    /\ argv \in ArgumentValues(fn)
    /\ phase = "ast"
    /\ status = "running"
    /\ MachineIdle
    /\ ModuleIdle

\* the call of the lowered function f: the arguments are the first locals,
\* the other locals start at zero
Enter(f) ==
    /\ code' = f.instructions
    /\ fnLocals' = f.argument_names \o [i \in 1..Len(f.locals) |-> f.locals[i][1]]
    /\ frame' = [i \in 1..(Len(f.argument_names) + Len(f.locals)) |->
                    IF i <= Len(argv) THEN argv[i] ELSE 0]
    /\ pc' = 1
    /\ phase' = "run"
    /\ UNCHANGED status

Lowered(build) ==
    IF build.panic
    THEN /\ status' = "panic"
         /\ phase' = "halt"
         /\ UNCHANGED <<code, fnLocals, pc, frame>>
    ELSE Enter(build.functions[1])

\* construct_module on the module that holds fn alone, then the call of fn
Lower ==
    /\ phase = "ast"
    /\ Lowered(construct_module(<<fn>>))
    /\ UNCHANGED <<fn, argv, stack, labels, trace, global_values, moduleVars>>

Next == Lower \/ Exec

Spec == Init /\ [][Next]_vars

(***************************************************************************)
(* The typed modules construct_module and encoder::emit are run on: every  *)
(* list of at most MaxDefs distinct definitions in which each custom type  *)
(* a definition names is defined.                                          *)
(***************************************************************************)
MaxDefs == 3

Variant(name, arguments) == [name |-> name, arguments |-> arguments]
Field(label, type_) == [label |-> label, type_ |-> type_]
CustomType(name, parameters, constructors) ==
    [k |-> "CustomType", name |-> name, parameters |-> parameters,
     constructors |-> constructors]

\* fn f(x: Int) -> Int { x }
FnF ==
    [k |-> "Function", name |-> "f",
     arguments |-> <<Argument("x", IntType)>>, return_type |-> IntType,
     body |-> <<ExprStatement(LocalVar("x", IntType))>>]
\* fn g(c: Color, n: Int) -> Bool { True }
FnG ==
    [k |-> "Function", name |-> "g",
     arguments |-> <<Argument("c", Named("Color")), Argument("n", IntType)>>,
     return_type |-> BoolType,
     body |-> <<ExprStatement(TrueExpr)>>]
\* type Box { Box(Int) }
TypeBox == CustomType("Box", <<>>, <<Variant("Box", <<Field(<<>>, IntType)>>)>>)
\* type Color { Red  Green }
TypeColor ==
    CustomType("Color", <<>>, <<Variant("Red", <<>>), Variant("Green", <<>>)>>)
\* type Shape { Pair(Int, Color)  Tagged(tag: Color, on: Bool)  Empty }
TypeShape ==
    CustomType("Shape", <<>>,
               <<Variant("Pair", <<Field(<<>>, IntType),
                                   Field(<<>>, Named("Color"))>>),
                 Variant("Tagged", <<Field(<<"tag">>, Named("Color")),
                                     Field(<<"on">>, BoolType)>>),
                 Variant("Empty", <<>>)>>)
\* type Tree { Leaf  Node(Tree, Tree) }
TypeTree ==
    CustomType("Tree", <<>>,
               <<Variant("Leaf", <<>>),
                 Variant("Node", <<Field(<<>>, Named("Tree")),
                                   Field(<<>>, Named("Tree"))>>)>>)
\* type Wrap(a) { Wrap(Int) }
TypeWrap ==
    CustomType("Wrap", <<"a">>, <<Variant("Wrap", <<Field(<<>>, IntType)>>)>>)
\* import gleam/io
ImportIo == [k |-> "Import", name |-> "io"]
\* type Id = Int
AliasId == [k |-> "TypeAlias", name |-> "Id"]
\* const one = 1
ConstOne == [k |-> "ModuleConstant", name |-> "one"]
\* fn k() -> Color { Green }
FnK ==
    [k |-> "Function", name |-> "k", arguments |-> <<>>,
     return_type |-> Named("Color"),
     body |-> <<ExprStatement(RecordVar("Green", 0, Named("Color")))>>]
\* fn h(x: Int) -> Int { f(h(x)) }
FnH ==
    [k |-> "Function", name |-> "h",
     arguments |-> <<Argument("x", IntType)>>, return_type |-> IntType,
     body |->
        <<ExprStatement(
            CallExpr(ModuleFnVar("f", IntType),
                     <<CallArg(CallExpr(ModuleFnVar("h", IntType),
                                        <<CallArg(LocalVar("x", IntType))>>,
                                        IntType))>>,
                     IntType))>>]
\* fn fl(x: Float) -> Float { x }
FnFl ==
    [k |-> "Function", name |-> "fl",
     arguments |-> <<Argument("x", FloatType)>>, return_type |-> FloatType,
     body |-> <<ExprStatement(LocalVar("x", FloatType))>>]
\* type Even { Zero  Succ(Odd) }
TypeEven ==
    CustomType("Even", <<>>,
               <<Variant("Zero", <<>>),
                 Variant("Succ", <<Field(<<>>, Named("Odd"))>>)>>)
\* type Odd { Pred(Even) }
TypeOdd ==
    CustomType("Odd", <<>>, <<Variant("Pred", <<Field(<<>>, Named("Even"))>>)>>)

Definitions ==
    {FnF, FnG, TypeBox, TypeColor, TypeShape, TypeTree, TypeWrap, ImportIo,
     AliasId, ConstOne, FnK, FnH, FnFl, TypeEven, TypeOdd}

\* the custom types a definition names in its argument, return and field types
NamedIn(type_) ==
    IF type_.k = "Named" /\ type_.name \notin {"Int", "Bool", "Nil", "Float"}
    THEN {type_.name} ELSE {}
TypesNamed(d) ==
    IF d.k = "Function" THEN
        NamedIn(d.return_type)
        \cup UNION {NamedIn(d.arguments[i].type_) : i \in 1..Len(d.arguments)}
    ELSE IF d.k = "CustomType" THEN
        UNION {UNION {NamedIn(d.constructors[i].arguments[j].type_) :
                          j \in 1..Len(d.constructors[i].arguments)} :
                   i \in 1..Len(d.constructors)}
    ELSE {}
TypesDefined(m) == {m[i].name : i \in {j \in 1..Len(m) : m[j].k = "CustomType"}}

\* the top-level functions an expression calls and the variants it names
RECURSIVE NamesIn(_)
NamesIn(e) ==
    IF e.k = "Call"
    THEN {e.fun.name} \cup UNION {NamesIn(e.args[i].value) : i \in 1..Len(e.args)}
    ELSE IF e.k = "Var" /\ e.variant = "Record" /\ e.name \notin {"True", "False"}
    THEN {e.name}
    ELSE {}
ValuesNamed(d) ==
    IF d.k = "Function" THEN NamesIn(d.body[1].expression) ELSE {}
ValuesDefined(m) ==
    {m[i].name : i \in {j \in 1..Len(m) : m[j].k = "Function"}}
    \cup UNION {{m[i].constructors[v].name : v \in 1..Len(m[i].constructors)} :
                   i \in {j \in 1..Len(m) : m[j].k = "CustomType"}}

\* the modules that pass the type checker: no definition twice, and every type,
\* function and variant a definition names is defined, before it or after it
Modules ==
    {m \in UNION {[1..n -> Definitions] : n \in 0..MaxDefs} :
        /\ \A i \in 1..Len(m) : \A j \in 1..Len(m) : m[i] = m[j] => i = j
        /\ \A i \in 1..Len(m) : TypesNamed(m[i]) \subseteq TypesDefined(m)
        /\ \A i \in 1..Len(m) : ValuesNamed(m[i]) \subseteq ValuesDefined(m)}

(***************************************************************************)
(* SpecModule: construct_module, one definition of one pass at a time,     *)
(* then encoder::emit, one section at a time.                              *)
(***************************************************************************)
\* the blocks of encoder::emit with `start` moved before `globals`
emit_order_start_early ==
    <<"types", "functions", "start", "globals", "elems", "code", "names">>

\* the order of the blocks of encoder::emit
emit_order ==
    <<"types", "functions", "globals", "start", "elems", "code", "names">>
\* the block that follows `step`, or "emitted" after the last one
emit_next(step) ==
    LET i == CHOOSE j \in 1..Len(emit_order) : emit_order[j] = step
    IN IF i = Len(emit_order) THEN "emitted" ELSE emit_order[i + 1]

InitModule ==
    /\ ast \in Modules
    /\ cursor = 0
    /\ table = construct_module_start.table
    /\ root_environment = construct_module_start.env
    /\ functions = <<>>
    /\ constants = <<>>
    /\ wasm_module = [functions |-> <<>>, constants |-> <<>>, types |-> <<>>]
    /\ sections = <<>>
    /\ written = <<>>
    /\ phase = "pass1"
    /\ status = "running"
    /\ fn = None
    /\ argv = <<>>
    /\ MachineIdle

\* the state of the build held in the variables
Building == Build(table, root_environment, functions, constants, FALSE)

\* the build after one definition of a pass: stored, or the compiler aborted
Built(build) ==
    /\ table' = build.table
    /\ root_environment' = build.env
    /\ functions' = build.functions
    /\ constants' = build.constants
    /\ cursor' = cursor + 1
    /\ IF build.panic
       THEN status' = "panic" /\ phase' = "halt"
       ELSE UNCHANGED <<status, phase>>

\* a pass that takes up the definitions where the pass before it stopped
PassDone_resumed(next) ==
    /\ cursor' = cursor
    /\ phase' = next
    /\ UNCHANGED <<table, root_environment, functions, constants, status>>

\* the end of a pass's loop over ast.definitions
PassDone(next) ==
    /\ cursor' = 0
    /\ phase' = next
    /\ UNCHANGED <<table, root_environment, functions, constants, status>>

FirstPass ==
    /\ phase = "pass1"
    /\ IF cursor < Len(ast) THEN Built(first_pass(Building, ast[cursor + 1]))
       ELSE PassDone("pass2")
    /\ UNCHANGED <<ast, wasm_module, sections, written, execVars>>

SecondPass ==
    /\ phase = "pass2"
    /\ IF cursor < Len(ast) THEN Built(second_pass(Building, ast[cursor + 1]))
       ELSE PassDone("pass3")
    /\ UNCHANGED <<ast, wasm_module, sections, written, execVars>>

ThirdPass ==
    /\ phase = "pass3"
    /\ IF cursor < Len(ast) THEN Built(third_pass(Building, ast[cursor + 1]))
       ELSE PassDone("module")
    /\ UNCHANGED <<ast, wasm_module, sections, written, execVars>>

\* the WasmModule construct_module returns, handed to encoder::emit
MakeModule ==
    /\ phase = "module"
    /\ wasm_module' = [functions |-> functions, constants |-> constants,
                       types |-> module_types(table)]
    /\ phase' = emit_order[1]
    /\ UNCHANGED <<ast, cursor, table, root_environment, functions, constants,
                   sections, written, status, execVars>>

\* init_function_type_idx and init_function_idx of encoder::emit
init_function_type_idx == Len(wasm_module.types)
\* a start function index that is the last function's
init_function_idx_last == Len(wasm_module.functions) - 1
init_function_idx == Len(wasm_module.functions)

\* module.section(section), and on to the next block of emit
Section(step, section) ==
    /\ phase = step
    /\ sections' = Append(sections, section)
    /\ phase' = emit_next(step)
    /\ status' = IF emit_next(step) = "emitted" THEN "done" ELSE status
    /\ UNCHANGED <<ast, cursor, table, root_environment, functions, constants,
                   written, execVars>>

EmitTypes ==
    /\ wasm_module' = [wasm_module EXCEPT !.types = sort_by_key(@, "id")]
    /\ Section("types", type_section(wasm_module'.types))

EmitFunctions ==
    /\ wasm_module' =
           [wasm_module EXCEPT !.functions = sort_by_key(@, "function_index")]
    /\ Section("functions",
               function_section(wasm_module'.functions, init_function_type_idx))

EmitGlobals ==
    /\ wasm_module' =
           [wasm_module EXCEPT !.constants = sort_by_key(@, "global_index")]
    /\ Section("globals", global_section(wasm_module'.constants))

EmitStart ==
    /\ Section("start", start_section(init_function_idx))
    /\ UNCHANGED wasm_module

EmitElems ==
    /\ Section("elems", element_section(wasm_module.functions))
    /\ UNCHANGED wasm_module

EmitCode ==
    /\ Section("code", code_section(wasm_module.functions, wasm_module.constants))
    /\ UNCHANGED wasm_module

EmitNames ==
    /\ Section("names",
               name_section(wasm_module, init_function_idx,
                            init_function_type_idx))
    /\ UNCHANGED wasm_module

\* module: writer.write_bytes("out.wasm", bytes), the bytes being the encoding
\* of the sections appended
WriteBytes ==
    /\ phase = "emitted"
    /\ written' = Append(written, [path |-> "out.wasm", bytes |-> sections])
    /\ phase' = "written"
    /\ UNCHANGED <<ast, cursor, table, root_environment, functions, constants,
                   wasm_module, sections, status, execVars>>

(***************************************************************************)
(* The written module, instantiated: its globals start as their init       *)
(* expressions give them (ref.null), the function of the Start section is  *)
(* run, and only then can a function of the module be called.              *)
(***************************************************************************)
\* the section with this id, once appended
SectionOf(id) == sections[CHOOSE i \in 1..Len(sections) : sections[i].id = id]
HasSection(id) == \E i \in 1..Len(sections) : sections[i].id = id

\* a reference to a struct of type type_index, and the null reference
Struct(type_index, fields) == [struct |-> type_index, fields |-> fields]
RefNull == Struct(-1, <<>>)

\* the body and the type of the function with this index
CodeOf(f) == SectionOf("Code").entries[f + 1]
FuncTypeOf(f) ==
    SectionOf("Type").entries[SectionOf("Function").entries[f + 1] + 1]

RECURSIVE CallBody(_, _, _, _, _)
\* the run of a called body made of constants, parameters and struct.new only
\* (a constructor): its operand stack at `end`, or not ok
CallBody(body, i, st, args, types) ==
    IF i > Len(body) THEN [ok |-> FALSE, st |-> st]
    ELSE IF body[i].op = "End" THEN [ok |-> Len(st) = 1, st |-> st]
    ELSE IF body[i].op = "I32Const"
    THEN CallBody(body, i + 1, Append(st, body[i].n), args, types)
    ELSE IF body[i].op = "LocalGet" /\ body[i].n < Len(args)
    THEN CallBody(body, i + 1, Append(st, args[body[i].n + 1]), args, types)
    ELSE IF /\ body[i].op = "StructNew"
            /\ body[i].n < Len(types)
            /\ types[body[i].n + 1].k = "sub"
            /\ Len(types[body[i].n + 1].fields) <= Len(st)
    THEN CallBody(
             body, i + 1,
             Append(SubSeq(st, 1, Len(st) - Len(types[body[i].n + 1].fields)),
                    Struct(body[i].n,
                           SubSeq(st,
                                  Len(st) - Len(types[body[i].n + 1].fields) + 1,
                                  Len(st)))),
             args, types)
    ELSE [ok |-> FALSE, st |-> st]

\* instantiation: the globals take their init expression's value, ref.null,
\* and the start function is entered
Instantiate ==
    /\ phase = "written"
    /\ global_values' = [i \in 1..Len(SectionOf("Global").entries) |->
                            [value |-> RefNull, sets |-> 0]]
    /\ code' = CodeOf(SectionOf("Start").function_index).instructions
    /\ pc' = 1
    /\ stack' = <<>>
    /\ frame' = <<>>
    /\ labels' = <<>>
    /\ trace' = <<>>
    /\ phase' = "init"
    /\ status' = "running"
    /\ UNCHANGED <<fn, argv, fnLocals, moduleVars>>

Starting == phase = "init" /\ status = "running" /\ pc \in 1..Len(code)

\* call, in the start function: the callee is run to its end
StartCall ==
    /\ Starting /\ Instr.op = "Call"
    /\ IF \/ Instr.n >= Len(SectionOf("Code").entries)
          \/ FuncTypeOf(Instr.n).k # "func"
          \/ Avail < Len(FuncTypeOf(Instr.n).parameters)
       THEN Stop("invalid")
       ELSE LET result ==
                    CallBody(CodeOf(Instr.n).instructions, 1, <<>>,
                             Top(Len(FuncTypeOf(Instr.n).parameters)),
                             SectionOf("Type").entries)
            IN IF ~result.ok THEN Stop("invalid")
               ELSE Go(pc + 1,
                       Popped(Len(FuncTypeOf(Instr.n).parameters)) \o result.st,
                       frame, labels)
    /\ Fixed

\* global.set: the global must exist and hold references to the value's type
StartGlobalSet ==
    /\ Starting /\ Instr.op = "GlobalSet"
    /\ IF \/ Avail < 1
          \/ Instr.n >= Len(global_values)
          \/ stack[Len(stack)].struct
                 # SectionOf("Global").entries[Instr.n + 1].val_type.heap_type
       THEN Stop("invalid") /\ UNCHANGED global_values
       ELSE /\ Go(pc + 1, Popped(1), frame, labels)
            /\ global_values' =
                   [global_values EXCEPT
                       ![Instr.n + 1] = [value |-> stack[Len(stack)],
                                         sets |-> @.sets + 1]]
    /\ UNCHANGED <<fn, argv, code, fnLocals, moduleVars>>

\* the final `end` of the start function, of type () -> ()
StartEnd ==
    /\ Starting /\ Instr.op = "End"
    /\ IF stack # <<>> THEN Stop("invalid")
       ELSE /\ phase' = "ready"
            /\ trace' = Append(trace, pc)
            /\ UNCHANGED <<pc, stack, frame, labels, status>>
    /\ Fixed

\* a call, from outside, of one of the module's functions written from a source
\* function whose body calls no other; its parameters are zero
Invoke ==
    /\ phase = "ready"
    /\ \E i \in 1..Len(wasm_module.functions) :
          /\ wasm_module.functions[i].name[1] # "new@"
          /\ \A j \in 1..Len(wasm_module.functions[i].instructions) :
                 wasm_module.functions[i].instructions[j].op # "Call"
          /\ code' = CodeOf(wasm_module.functions[i].function_index).instructions
          /\ frame' = [j \in 1..(Len(FuncTypeOf(wasm_module.functions[i]
                                                   .function_index).parameters)
                                  + Len(CodeOf(wasm_module.functions[i]
                                                   .function_index).locals)) |-> 0]
    /\ pc' = 1
    /\ stack' = <<>>
    /\ labels' = <<>>
    /\ trace' = <<>>
    /\ phase' = "run"
    /\ UNCHANGED <<fn, argv, fnLocals, status, global_values, moduleVars>>

ExecGlobalGet ==
    /\ Running /\ Instr.op = "GlobalGet"
    /\ IF Instr.n >= Len(global_values) THEN Stop("invalid")
       ELSE Go(pc + 1, Append(stack, global_values[Instr.n + 1].value), frame,
               labels)
    /\ Fixed

\* ref.as_non_null traps on the null reference
ExecRefAsNonNull ==
    /\ Running /\ Instr.op = "RefAsNonNull"
    /\ IF Avail < 1 THEN Stop("invalid")
       ELSE IF stack[Len(stack)] = RefNull THEN Stop("trap")
       ELSE Go(pc + 1, stack, frame, labels)
    /\ Fixed

NextModule ==
    \/ FirstPass \/ SecondPass \/ ThirdPass \/ MakeModule
    \/ EmitTypes \/ EmitFunctions \/ EmitGlobals \/ EmitStart \/ EmitElems
    \/ EmitCode \/ EmitNames \/ WriteBytes
    \/ Instantiate \/ StartCall \/ StartGlobalSet \/ StartEnd \/ Invoke
    \/ ExecConst \/ ExecLocalGet \/ ExecGlobalGet \/ ExecRefAsNonNull \/ ExecEnd

SpecModule == InitModule /\ [][NextModule]_vars

(***************************************************************************)
(* The value of a source expression, as the language defines it: the       *)
(* reference the emitted code is compared with. `vals` maps the names in   *)
(* scope to their values, booleans are 0 and 1. A value is [ok, v, why]:   *)
(* ok is FALSE when the expression has no value to compare, because no     *)
(* clause of a case matches ("nomatch") or because it divides ("division": *)
(* division and remainder have their own properties below).                *)
(***************************************************************************)
Value(v) == [ok |-> TRUE, v |-> v, why |-> "value"]
NoValue(why) == [ok |-> FALSE, v |-> 0, why |-> why]

\* whether the values match the patterns, position by position
Matches(patterns, values) ==
    \A j \in 1..Len(patterns) :
        j <= Len(values) /\ (patterns[j].k = "Int" => values[j] = patterns[j].value[1])

\* the first clause whose patterns match, 0 if none does
FirstMatch(clauses, values) ==
    LET matching == {i \in 1..Len(clauses) : Matches(clauses[i].pattern, values)}
    IN IF matching = {} THEN 0
       ELSE CHOOSE i \in matching : \A h \in matching : i <= h

\* vals, with every variable of the patterns bound to the value at its position
Bound(patterns, values, vals) ==
    LET names == {patterns[j].name :
                     j \in {h \in 1..Len(patterns) : patterns[h].k = "Variable"}}
    IN [n \in DOMAIN vals \cup names |->
           IF n \in names
           THEN values[CHOOSE j \in 1..Len(patterns) :
                           patterns[j].k = "Variable" /\ patterns[j].name = n]
           ELSE vals[n]]

Arithmetic(name, a, b) ==
    IF name = "AddInt" THEN a + b
    ELSE IF name = "SubInt" THEN a - b
    ELSE IF name = "MultInt" THEN a * b
    ELSE IF name = "LtInt" THEN Bool32(a < b)
    ELSE IF name = "LtEqInt" THEN Bool32(a <= b)
    ELSE IF name = "GtInt" THEN Bool32(a > b)
    ELSE IF name = "GtEqInt" THEN Bool32(a >= b)
    ELSE IF name = "Eq" THEN Bool32(a = b)
    ELSE Bool32(a # b)

RECURSIVE Eval(_, _)
RECURSIVE EvalAll(_, _)
\* the values of a list of expressions, or the first that has none
EvalAll(expressions, vals) ==
    IF expressions = <<>> THEN [ok |-> TRUE, vs |-> <<>>, why |-> "value"]
    ELSE LET first == Eval(Head(expressions), vals)
             rest == EvalAll(Tail(expressions), vals)
         IN IF ~first.ok THEN [ok |-> FALSE, vs |-> <<>>, why |-> first.why]
            ELSE IF ~rest.ok THEN rest
            ELSE [ok |-> TRUE, vs |-> <<first.v>> \o rest.vs, why |-> "value"]

Eval(e, vals) ==
    IF e.k = "Int" THEN Value(e.value[1])
    ELSE IF e.k = "Var" THEN
        (IF e.variant = "LocalVariable" THEN Value(vals[e.name])
         ELSE Value(Bool32(e.name = "True")))
    ELSE IF e.k = "NegateInt" THEN
        LET v == Eval(e.value, vals) IN IF v.ok THEN Value(-v.v) ELSE v
    ELSE IF e.k = "NegateBool" THEN
        LET v == Eval(e.value, vals) IN IF v.ok THEN Value(1 - v.v) ELSE v
    ELSE IF e.k = "Block" THEN
        LET all == EvalAll([i \in 1..Len(e.statements) |->
                               e.statements[i].expression], vals)
        IN IF all.ok THEN Value(all.vs[Len(all.vs)]) ELSE NoValue(all.why)
    ELSE IF e.k = "Case" THEN
        LET subjects == EvalAll(e.subjects, vals)
            i == FirstMatch(e.clauses, subjects.vs)
        IN IF ~subjects.ok THEN NoValue(subjects.why)
           ELSE IF i = 0 THEN NoValue("nomatch")
           ELSE Eval(e.clauses[i].then,
                     Bound(e.clauses[i].pattern, subjects.vs, vals))
    ELSE IF e.name \in {"DivInt", "RemainderInt"} THEN NoValue("division")
    ELSE
        LET l == Eval(e.left, vals) IN
        IF ~l.ok THEN l
        ELSE IF e.name = "And" /\ l.v = 0 THEN Value(0)
        ELSE IF e.name = "Or" /\ l.v = 1 THEN Value(1)
        ELSE LET r == Eval(e.right, vals) IN
             IF ~r.ok THEN r
             ELSE IF e.name \in {"And", "Or"} THEN r
             ELSE Value(Arithmetic(e.name, l.v, r.v))

\* the function under test: its body expression and its arguments' values
Body == fn.body[1].expression
Arguments ==
    [n \in {fn.arguments[i].name : i \in 1..Len(fn.arguments)} |->
        argv[CHOOSE i \in 1..Len(fn.arguments) : fn.arguments[i].name = n]]
Halted == phase = "halt" /\ status # "panic"
Returned(v) == status = "done" /\ stack = <<v>>
\* the function is fn f(a: Int, b: Int) { a <op> b }
IsBinary(op) == phase # "ast" /\ fn = IntFunction(IntOp(op, VarA, VarB))
\* the positions executed so far that lie in lo..hi
Executed(lo, hi) == {k \in 1..Len(trace) : trace[k] \in lo..hi}

(***************************************************************************)
(* Division and remainder (C1, C2, C3) and stack discipline (C4).          *)
(***************************************************************************)
\* C1: the code emitted for a / b, run with b = 0, finishes without trapping
\* and leaves 0 as its result.
C1_DivisionByZeroIsZero ==
    (Halted /\ IsBinary("DivInt") /\ argv[2] = 0) => Returned(0)

\* C2: the code emitted for a % b, run with b = 0, finishes without trapping
\* and leaves 0; and a / b + a % b called with (7, 0) returns 0.
C2_RemainderByZeroIsZero ==
    /\ (Halted /\ IsBinary("RemainderInt") /\ argv[2] = 0) => Returned(0)
    /\ (Halted /\ fn = IntFunction(DivMod) /\ argv = <<7, 0>>) => Returned(0)

\* C3: for b /= 0 the code emitted for a / b leaves the signed quotient of a
\* by b as its result.
C3_DivisionIsSignedQuotient ==
    (Halted /\ IsBinary("DivInt") /\ argv[2] # 0)
        => Returned(DivS(argv[1], argv[2]))

\* C4: the emitted code never pops below the operand-stack height at the entry
\* of its enclosing block or if, every block ends with exactly its result on
\* top of its entry height, and a function body that runs to its final `end`
\* leaves exactly one value.
C4_StackDiscipline ==
    /\ status # "invalid"
    /\ status = "done" => Len(stack) = 1

(***************************************************************************)
(* Short-circuit evaluation (C5).                                          *)
(***************************************************************************)
\* the body is l && r or l || r
IsLogic == phase # "ast" /\ fn # None /\ Body.k = "BinOp" /\ Body.name \in {"And", "Or"}
\* the instructions of an operand of the body, lowered on their own in the
\* function's scope
OperandCode(e) ==
    LET declared == function_arguments(
                        [env |-> Environment_with_enclosing(
                                     construct_module_start.env),
                         locals |-> LocalStore_new, panic |-> FALSE],
                        fn.arguments, SymbolTable_new)
    IN emit_expression(e, declared.env, declared.locals, SymbolTable_new).insts
\* the two branches of the `if` at position i: the positions between `if` and
\* `else`, and between `else` and `end`
ThenBranch(i) == <<i + 1, MatchElseOrEnd(code, i) - 1>>
ElseBranch(i) == <<MatchElseOrEnd(code, i) + 1, MatchEnd(code, i) - 1>>

\* C5: in the code of l && r the instructions of r execute iff l evaluated to
\* true, in the code of l || r iff l evaluated to false; l is evaluated first
\* and exactly once; the result is the conjunction (disjunction) of the two.
C5_ShortCircuit ==
    (IsLogic /\ Eval(Body.left, Arguments).ok) =>
        LET left == OperandCode(Body.left)
            \* l occupies the first positions; the `if` follows it
            leftEnd == Len(left)
            \* r is the then branch of l && r, the else branch of l || r
            right == IF Body.name = "And" THEN ThenBranch(leftEnd + 1)
                     ELSE ElseBranch(leftEnd + 1)
            rightExecuted == Executed(right[1], right[2]) # {}
            l == Eval(Body.left, Arguments).v
            value == Eval(Body, Arguments)
        IN /\ SubSeq(code, 1, leftEnd) = left
           /\ code[leftEnd + 1].op = "If"
           /\ SubSeq(code, right[1], right[2]) = OperandCode(Body.right)
           \* l first: no position outside l is executed before a position of l
           /\ \A k \in Executed(1, leftEnd) : \A j \in 1..k : trace[j] <= leftEnd
           \* l once: no position is executed twice
           /\ \A j \in 1..Len(trace) : \A k \in 1..Len(trace) :
                 trace[j] = trace[k] => j = k
           /\ rightExecuted => l = (IF Body.name = "And" THEN 1 ELSE 0)
           /\ (Halted /\ value.ok) =>
                 /\ Returned(value.v)
                 /\ trace[1] = 1
                 /\ rightExecuted <=> l = (IF Body.name = "And" THEN 1 ELSE 0)
                 /\ value.v = (IF Body.name = "And"
                               THEN Bool32(l = 1 /\ Eval(Body.right, Arguments).v = 1)
                               ELSE Bool32(l = 1 \/ Eval(Body.right, Arguments).v = 1))

\* a run of false && r has ended without executing r
C5_Witness ==
    /\ Halted /\ IsLogic /\ Body.name = "And"
    /\ Eval(Body.left, Arguments) = Value(0)
    /\ Executed(ThenBranch(Len(OperandCode(Body.left)) + 1)[1],
                ThenBranch(Len(OperandCode(Body.left)) + 1)[2]) = {}
    /\ Returned(0)

(***************************************************************************)
(* Case expressions (C6, C7).                                              *)
(***************************************************************************)
\* the body is a case expression whose subjects have values
IsCase ==
    /\ phase # "ast" /\ fn # None /\ status # "panic"
    /\ Body.k = "Case"
    /\ EvalAll(Body.subjects, Arguments).ok
\* the clause the subjects select, 0 if none
Selected == FirstMatch(Body.clauses, EvalAll(Body.subjects, Arguments).vs)
\* the outer case block is the block closed by the `end` before the final one
CaseBlock ==
    CHOOSE i \in 1..Len(code) :
        code[i].op = "Block" /\ MatchEnd(code, i) = Len(code) - 1
RECURSIVE ClauseStartsFrom(_, _)
\* the positions of the clause blocks that follow each other from position i
ClauseStartsFrom(c, i) ==
    IF i <= Len(c) /\ c[i].op = "Block"
    THEN <<i>> \o ClauseStartsFrom(c, MatchEnd(c, i) + 1)
    ELSE <<>>
\* the clauses of the case block: where each starts (`block`) and ends (`end`)
ClauseStarts == ClauseStartsFrom(code, CaseBlock + 1)
ClauseEnds(starts) == [i \in 1..Len(starts) |-> MatchEnd(code, starts[i])]
\* the position after the last clause: the trailing `unreachable`
Fallback == Len(code) - 2
\* the clause block that directly encloses position p, 0 if none does
ClauseOf(p, starts, ends) ==
    LET around == {i \in 1..Len(starts) :
                      /\ starts[i] < p /\ p < ends[i]
                      /\ \A q \in (starts[i] + 1)..(p - 1) :
                            code[q].op \in {"Block", "If"} => MatchEnd(code, q) < p}
    IN IF around = {} THEN 0 ELSE CHOOSE i \in around : TRUE
\* the layout of the code of a case: one clause block per clause, one after
\* the other, then `unreachable` and the `end` of the case block
CaseLayout(starts, ends) ==
    /\ Len(starts) = Len(Body.clauses)
    /\ code[Fallback].op = "Unreachable"
    /\ (IF starts = <<>> THEN CaseBlock + 1 ELSE ends[Len(starts)] + 1) = Fallback
\* clauses 1..n were entered, each before anything that follows it
EnteredInOrder(starts, n) ==
    \A i \in 1..n :
        \E k \in 1..Len(trace) :
            /\ trace[k] = starts[i]
            /\ \A j \in 1..k : trace[j] <= starts[i]

\* C6: if every clause's conditions fail for the stored subjects, control
\* falls out of each clause block in turn and reaches the trailing
\* `unreachable` of the case block: the case traps and yields no value.
C6_NoMatchTraps ==
    (IsCase /\ Selected = 0) =>
        LET starts == ClauseStarts IN
        /\ CaseLayout(starts, ClauseEnds(starts))
        /\ status # "done"
        /\ Halted =>
              /\ status = "trap" /\ pc = Fallback /\ stack = <<>>
              /\ EnteredInOrder(starts, Len(starts))

\* a case none of whose two clauses matches has trapped
C6_Witness ==
    /\ Halted /\ IsCase /\ Selected = 0 /\ Len(Body.clauses) = 2
    /\ status = "trap" /\ pc = Fallback

\* C7: clauses are tried in source order; the value of the case is the body
\* value of the first clause whose conditions all succeed, after which `br 1`
\* leaves the case block, so nothing of a later clause is executed; a failing
\* condition of clause i transfers control to the start of clause i+1 (after
\* the last clause: to the trailing `unreachable`), never out of the case block.
C7_ClauseSelection ==
    IsCase =>
        LET starts == ClauseStarts
            ends == ClauseEnds(starts)
            selected == Selected
            value == Eval(Body, Arguments)
        IN
        /\ CaseLayout(starts, ends)
        \* a taken `br_if 0` of clause i continues at the start of clause i+1
        /\ \A k \in 1..(Len(trace) - 1) :
              (/\ code[trace[k]].op = "BrIf"
               /\ trace[k + 1] # trace[k] + 1
               /\ ClauseOf(trace[k], starts, ends) # 0)
              => LET i == ClauseOf(trace[k], starts, ends)
                 IN /\ trace[k + 1] = ends[i] + 1
                    /\ trace[k + 1] = (IF i < Len(starts) THEN starts[i + 1]
                                       ELSE Fallback)
                    /\ i < selected \/ selected = 0
        /\ selected # 0 =>
              \* nothing of a later clause is executed, nor the fallback
              /\ \A k \in 1..Len(trace) :
                    trace[k] <= ends[selected] \/ trace[k] = Len(code)
              \* the clauses up to it were entered in source order
              /\ (Halted \/ pc > starts[selected]) =>
                    EnteredInOrder(starts, selected)
              \* the value of the case is the value of the selected body, and
              \* `br 1` at the end of the selected clause left the case block
              /\ (Halted /\ value.ok) =>
                    /\ Returned(value.v)
                    /\ \E k \in 1..(Len(trace) - 1) :
                          /\ code[trace[k]] = Br(1)
                          /\ trace[k] = ends[selected] - 1
                          /\ trace[k + 1] = Len(code)

\* a case whose first clause failed and whose second clause gave the value
C7_Witness ==
    /\ Halted /\ IsCase /\ Selected = 2
    /\ Returned(Eval(Body, Arguments).v)
    /\ \E k \in 1..(Len(trace) - 1) :
          code[trace[k]].op = "BrIf" /\ trace[k + 1] = ClauseStarts[2]

(***************************************************************************)
(* The encoded module (C8, C9, C10).                                       *)
(***************************************************************************)
SectionIds == [i \in 1..Len(sections) |-> sections[i].id]
SectionOrder ==
    <<"Type", "Function", "Global", "Start", "Element", "Code", "Name">>

\* C8: encoder::emit appends the sections in the order Type, Function, Global,
\* Start, Element, Code, Name, each exactly once, also for a module without
\* globals or without functions.
C8_SectionOrdering ==
    /\ Len(sections) <= Len(SectionOrder)
    /\ SectionIds = SubSeq(SectionOrder, 1, Len(sections))
    /\ phase = "emitted" => SectionIds = SectionOrder

\* a module without functions and without globals has been encoded
C8_Witness ==
    /\ phase = "emitted"
    /\ wasm_module.functions = <<>> /\ wasm_module.constants = <<>>
    /\ SectionIds = SectionOrder

\* construct_module has returned its WasmModule
Constructed == phase \in {emit_order[i] : i \in 1..Len(emit_order)} \cup {"emitted"}
\* the values of a field over a list
Indices(list, field) == {list[i][field] : i \in 1..Len(list)}
\* the entity of the list that has this index
WithIndex(list, field, index) ==
    list[CHOOSE i \in 1..Len(list) : list[i][field] = index]

\* C9: after construct_module the type ids are exactly 0..T-1, the function
\* indices of the WasmFunctions exactly 0..F-1 with one WasmFunction per index,
\* the global indices exactly 0..G-1; after the encoder's sorts the entity at
\* position p of the Type, Function, Code and Global sections is the entity
\* whose index is p.
C9_IndexDensity ==
    Constructed =>
        /\ Indices(wasm_module.types, "id") = 0..(Len(wasm_module.types) - 1)
        /\ Indices(wasm_module.functions, "function_index")
               = 0..(Len(wasm_module.functions) - 1)
        /\ Indices(wasm_module.constants, "global_index")
               = 0..(Len(wasm_module.constants) - 1)
        /\ HasSection("Type") =>
              \A p \in 1..Len(wasm_module.types) :
                  SectionOf("Type").entries[p]
                      = encode_type(WithIndex(wasm_module.types, "id", p - 1))
        /\ HasSection("Function") =>
              \A p \in 1..Len(wasm_module.functions) :
                  SectionOf("Function").entries[p]
                      = WithIndex(wasm_module.functions, "function_index",
                                  p - 1).type_index
        /\ HasSection("Global") =>
              \A p \in 1..Len(wasm_module.constants) :
                  SectionOf("Global").entries[p].val_type.heap_type
                      = WithIndex(wasm_module.constants, "global_index",
                                  p - 1).type_index
        /\ HasSection("Code") =>
              \A p \in 1..Len(wasm_module.functions) :
                  SectionOf("Code").entries[p].instructions
                      = WithIndex(wasm_module.functions, "function_index",
                                  p - 1).instructions

\* a module whose functions construct_module pushed out of index order has
\* been encoded
C9_Witness ==
    /\ phase = "emitted"
    /\ \E i \in 1..Len(functions) : functions[i].function_index # i - 1
    /\ Len(wasm_module.constants) >= 2
    /\ Len(wasm_module.types) >= 5

\* the custom types of the module and, for each, its variants
CustomTypes == {i \in 1..Len(ast) : ast[i].k = "CustomType"}
\* the synthesised type with this name
TypeNamed(name) ==
    wasm_module.types[CHOOSE i \in 1..Len(wasm_module.types) :
                          wasm_module.types[i].name = name]
\* the kind of value a field of this source type holds
FieldKind(type_) ==
    IF type_.k = "Named" /\ type_.name \in {"Int", "Bool", "Nil"} THEN "I32"
    ELSE "Ref"

\* C10: for every variant of every custom type, the Product type's
\* supertype_index is the type id of the Sum type of the custom type that
\* declares the variant, and the encoded struct's first field is the immutable
\* tag field, followed by the variant's fields in declaration order.
C10_SubtypeCoherence ==
    Constructed =>
        \A t \in CustomTypes : \A v \in 1..Len(ast[t].constructors) :
            LET variant == ast[t].constructors[v]
                product == TypeNamed(<<"typ@", ast[t].name, variant.name>>)
                sum == TypeNamed(<<"sum@", ast[t].name>>)
            IN /\ product.definition.k = "Product"
               /\ sum.definition.k = "Sum"
               /\ product.definition.supertype_index = sum.id
               /\ HasSection("Type") =>
                     LET encoded == SectionOf("Type").entries[product.id + 1]
                     IN /\ encoded.k = "sub"
                        /\ encoded.supertype_idx = <<sum.id>>
                        /\ Len(encoded.fields) = 1 + Len(variant.arguments)
                        /\ encoded.fields[1]
                               = [element_type |->
                                      [v |-> "I32", nullable |-> FALSE,
                                       heap_type |-> 0],
                                  mutable |-> FALSE]
                        /\ \A j \in 1..Len(variant.arguments) :
                              /\ encoded.fields[j + 1].element_type.v
                                     = FieldKind(variant.arguments[j].type_)
                              /\ ~encoded.fields[j + 1].mutable

\* a module with a variant of fields of two kinds, Pair(Int, Color), and a
\* variant of their other order has been encoded
C10_Witness ==
    /\ phase = "emitted"
    /\ \E t \in CustomTypes : ast[t] = TypeShape
    /\ HasSection("Type")

(***************************************************************************)
(* The symbol table after the second pass (C11, C12, C15).                 *)
(***************************************************************************)
\* the second pass has run over every definition and nothing aborted
Synthesised == phase \notin {"pass1", "pass2"} /\ status # "panic"
\* the Product entity and the synthesised type with this name
ProductNamed(name) ==
    LET lst == Store_as_list(table.products)
    IN lst[CHOOSE i \in 1..Len(lst) : lst[i].name = name]
TableTypeNamed(name) ==
    LET lst == Store_as_list(table.types)
    IN lst[CHOOSE i \in 1..Len(lst) : lst[i].name = name].definition
\* the Product entity of variant v of the custom type ast[t], and its type
VariantProduct(t, v) ==
    ProductNamed(<<"product@", ast[t].name, ast[t].constructors[v].name>>)
VariantType(t, v) ==
    TableTypeNamed(<<"typ@", ast[t].name, ast[t].constructors[v].name>>)

\* C11: in every custom type, the i-th variant in declaration order (from 0)
\* has tag i in its Product entity and in its Product type; the tags of one
\* sum are exactly 0..k-1, and they restart at 0 for each custom type.
C11_TagOrdinals ==
    Synthesised =>
        \A t \in CustomTypes :
            /\ \A v \in 1..Len(ast[t].constructors) :
                  /\ VariantProduct(t, v).tag = v - 1
                  /\ VariantType(t, v).definition.k = "Product"
                  /\ VariantType(t, v).definition.tag = v - 1
                  /\ VariantType(t, v).id = VariantProduct(t, v).type_
            /\ {VariantProduct(t, v).tag : v \in 1..Len(ast[t].constructors)}
                   = 0..(Len(ast[t].constructors) - 1)

\* the second pass has synthesised a type of three variants that follows
\* another custom type
C11_Witness ==
    /\ Synthesised
    /\ \E i \in CustomTypes : \E j \in CustomTypes :
          i < j /\ Len(ast[i].constructors) = 2 /\ Len(ast[j].constructors) = 3
    /\ Len(Store_as_list(table.products)) >= 5

\* the top-level functions of the module, and the one with this name
FunctionDefs == {i \in 1..Len(ast) : ast[i].k = "Function"}
FunctionAt(name) == CHOOSE i \in FunctionDefs : ast[i].name = name
\* the function id the first pass issues for the function at position i: the
\* first pass issues function ids to functions only, in definition order
PassOneIndex(i) == Cardinality({j \in FunctionDefs : j < i})
\* the top-level functions an expression calls, in the order of the calls
RECURSIVE CallsIn(_)
CallsOfArgs(args) ==
    IF args = <<>> THEN <<>>
    ELSE CallsIn(args[1].value)
         \o (IF Len(args) > 1 THEN CallsIn(args[2].value) ELSE <<>>)
CallsIn(e) ==
    IF e.k = "Call" THEN CallsOfArgs(e.args) \o <<e.fun.name>> ELSE <<>>
\* the targets of the call instructions of a body, in order
RECURSIVE CallTargets(_)
CallTargets(insts) ==
    IF insts = <<>> THEN <<>>
    ELSE (IF Head(insts).op = "Call" THEN <<Head(insts).n>> ELSE <<>>)
         \o CallTargets(Tail(insts))
\* the emitted WasmFunction with this name
WasmFunctionNamed(name) ==
    wasm_module.functions[CHOOSE i \in 1..Len(wasm_module.functions) :
                              wasm_module.functions[i].name = name]

\* C12: for top-level functions f and g (f = g and f declared after g
\* included), a call to f in g's body lowers to `call` with exactly the
\* function index the first pass allocated for f, and that index is the
\* function_index of f's emitted WasmFunction.
C12_FunctionCalls ==
    Constructed =>
        \A g \in FunctionDefs :
            /\ WasmFunctionNamed(<<ast[g].name>>).function_index = PassOneIndex(g)
            /\ LET calls == CallsIn(ast[g].body[1].expression)
               IN CallTargets(WasmFunctionNamed(<<ast[g].name>>).instructions)
                      = [c \in 1..Len(calls) |-> PassOneIndex(FunctionAt(calls[c]))]

\* a module in which h, which calls itself and f, is declared before f and
\* before a custom type, has been constructed
C12_Witness ==
    /\ Constructed
    /\ \E i \in FunctionDefs : \E j \in FunctionDefs :
          /\ i < j /\ ast[i] = FnH /\ ast[j] = FnF
          /\ CallTargets(WasmFunctionNamed(<<"h">>).instructions)
                 = <<PassOneIndex(i), PassOneIndex(j)>>
    /\ CustomTypes # {}

(***************************************************************************)
(* References to types declared later, and recursive types (C13, C14).     *)
(***************************************************************************)
\* the second pass is about to process the definition at position i
SecondPassAt(i) == phase = "pass2" /\ status = "running" /\ cursor + 1 = i
\* the position of the custom type with this name
CustomTypeAt(name) == CHOOSE i \in CustomTypes : ast[i].name = name
\* the function at position i names a custom type, and every custom type it
\* names is declared later in the module than the function
ForwardReferring(i) ==
    /\ ast[i].k = "Function"
    /\ TypesNamed(ast[i]) # {}
    /\ \A n \in TypesNamed(ast[i]) : CustomTypeAt(n) > i
    /\ \A a \in 1..Len(ast[i].arguments) : ~is_float(ast[i].arguments[a].type_)
    /\ ~is_float(ast[i].return_type)
\* the types synthesised so far, after the step
TypesAfter == Store_as_list(table'.types)

\* C13: the second pass synthesises, without aborting, the signature of a
\* function whose parameter or return type names a custom type declared later
\* in the module, the type being mapped to a struct reference.
C13_ForwardTypeReferences ==
    [][\A i \in 1..Len(ast) :
          (SecondPassAt(i) /\ ForwardReferring(i)) =>
              /\ status' # "panic"
              /\ Len(TypesAfter) = Len(Store_as_list(table.types)) + 1
              /\ \A a \in 1..Len(ast[i].arguments) :
                    NamedIn(ast[i].arguments[a].type_) # {} =>
                        TypesAfter[Len(TypesAfter)].definition.definition
                            .parameters[a].t = "StructRef"]_vars

\* the custom type at position i is not generic and every custom type its
\* fields name is the type itself or a type whose fields name it in turn
Recursive(i) ==
    /\ ast[i].k = "CustomType"
    /\ ast[i].parameters = <<>>
    /\ TypesNamed(ast[i]) # {}
    /\ \A n \in TypesNamed(ast[i]) :
          \/ n = ast[i].name
          \/ ast[i].name \in TypesNamed(ast[CustomTypeAt(n)])

\* C14: the second pass synthesises, without aborting, a custom type one of
\* whose variants has a field of the type itself, and two custom types that
\* refer to each other; the field's value-type is a struct reference.
C14_RecursiveTypes ==
    [][\A i \in 1..Len(ast) :
          (SecondPassAt(i) /\ Recursive(i)) =>
              /\ status' # "panic"
              /\ \A v \in 1..Len(ast[i].constructors) :
                    \A j \in 1..Len(ast[i].constructors[v].arguments) :
                        NamedIn(ast[i].constructors[v].arguments[j].type_) # {} =>
                            Store_get(table'.products,
                                      Environment_get(
                                          root_environment',
                                          ast[i].constructors[v].name).id)
                                .fields[j].type_.t = "StructRef"]_vars

\* the positions, in construct_module's vector of globals, of the globals with
\* this index, and of those of this type
GlobalsIndexed(index) ==
    {i \in 1..Len(constants) : constants[i].global_index = index}
GlobalsTyped(type_id) ==
    {i \in 1..Len(constants) : constants[i].type_index = type_id}
\* the variants of the module, as <<t, v>>, and those without arguments
AllVariants ==
    UNION {{<<t, v>> : v \in 1..Len(ast[t].constructors)} : t \in CustomTypes}
SimpleVariants ==
    {tv \in AllVariants : ast[tv[1]].constructors[tv[2]].arguments = <<>>}

Instantiated ==
    \/ phase \in {"init", "ready", "run"}
    \/ phase = "halt" /\ status # "panic"
\* the start function has returned
Started == Instantiated /\ phase # "init"
\* the globals the start function has set so far
GlobalsSet == {g \in 1..Len(global_values) : global_values[g].sets > 0}
\* the Product entity whose instance is the global with this index
ProductOfGlobal(index) ==
    LET lst == Store_as_list(table.products)
    IN lst[CHOOSE i \in 1..Len(lst) :
               lst[i].kind = "Simple" /\ lst[i].instance = index]

Unsupported ==
    \E i \in 1..Len(ast) :
        \/ ast[i].k \in {"Import", "TypeAlias", "ModuleConstant"}
        \/ ast[i].k = "CustomType" /\ ast[i].parameters # <<>>
\* construct_module or encoder::emit has not returned yet
Generating ==
    phase \in {"pass1", "pass2", "pass3", "module"}
              \cup {emit_order[i] : i \in 1..Len(emit_order)}

FloatDefined == \E i \in 1..Len(ast) : ast[i] = FnFl
C18_PrimitiveTypeMapping ==
    /\ from_gleam_type(IntType, root_environment, table) = WInt
    /\ from_gleam_type(BoolType, root_environment, table) = WBool
    /\ from_gleam_type(NilType, root_environment, table) = WNil
    /\ from_gleam_type(FloatType, root_environment, table) = WFloat
    /\ FloatDefined => status # "panic"

\* the module is in encoder::emit or beyond it
Encoding == wasm_module.functions # <<>> \/ wasm_module.types # <<>>
\* the user functions and the variant constructors the module defines
DefinedFunctions == Cardinality(FunctionDefs) + Cardinality(AllVariants)
\* the types synthesised for them: a signature for every function and every
\* constructor, a struct for every variant and one for every custom type
DefinedTypes ==
    Cardinality(FunctionDefs) + 2 * Cardinality(AllVariants)
    + Cardinality(CustomTypes)
\* the last entry of a section
LastEntry(id) == SectionOf(id).entries[Len(SectionOf(id).entries)]

\* C19: the start function's index is the number of user functions plus
\* constructors and its type index the number of synthesised types, both above
\* every index of a user function, constructor or type; the Start section
\* names that function index, the Type, Function and Code sections each end
\* with the start function's entry, at the position of that index.
C19_StartFunctionLast ==
    /\ Encoding =>
        /\ init_function_idx = DefinedFunctions
        /\ init_function_type_idx = DefinedTypes
        /\ init_function_type_idx = Len(Store_as_list(table.types))
        /\ \A i \in 1..Len(wasm_module.functions) :
            /\ wasm_module.functions[i].function_index < init_function_idx
            /\ wasm_module.functions[i].type_index < init_function_type_idx
        /\ \A i \in 1..Len(wasm_module.types) :
            wasm_module.types[i].id < init_function_type_idx
    /\ HasSection("Type") =>
        /\ Len(SectionOf("Type").entries) = DefinedTypes + 1
        /\ LastEntry("Type") = start_function_type
    /\ HasSection("Function") =>
        /\ Len(SectionOf("Function").entries) = DefinedFunctions + 1
        /\ LastEntry("Function") = DefinedTypes
    /\ HasSection("Start") =>
        SectionOf("Start").function_index = DefinedFunctions
    /\ HasSection("Code") =>
        /\ Len(SectionOf("Code").entries) = DefinedFunctions + 1
        /\ LastEntry("Code").locals = <<>>
        /\ LastEntry("Code").instructions
            = start_function_body(wasm_module.constants) \o <<End>>
\* a module with a user function, a constructor and a global is emitted whole
C19_Witness ==
    /\ phase = "emitted"
    /\ FunctionDefs # {}
    /\ SimpleVariants # {}
    /\ SectionOf("Start").function_index > 1
    /\ LastEntry("Function") > 2

\* the build that the definitions first..last of one pass make of `build`
RECURSIVE StepsOf(_, _, _, _)
StepsOf(pass, build, first, last) ==
    IF first > last \/ build.panic THEN build
    ELSE StepsOf(pass, pass_step(pass, build, ast[first]), first + 1, last)
\* the build that a run over ast holds in pass `pass` after n definitions of it
RECURSIVE BuildAt(_, _)
BuildAt(pass, n) ==
    StepsOf(pass,
            IF pass = 1 THEN construct_module_start
            ELSE BuildAt(pass - 1, Len(ast)),
            1, n)
\* the pass a phase of construct_module stands for
PassOf(p) == IF p = "pass1" THEN 1 ELSE IF p = "pass2" THEN 2 ELSE 3
\* the build held in the variables is this one
Holds(build) ==
    /\ table = build.table
    /\ root_environment = build.env
    /\ functions = build.functions
    /\ constants = build.constants
    /\ (status = "panic") = build.panic
\* the WasmModule of a build, and the sections encoder::emit makes of it
ModuleOf(build) ==
    [functions |-> sort_by_key(build.functions, "function_index"),
     constants |-> sort_by_key(build.constants, "global_index"),
     types |-> sort_by_key(module_types(build.table), "id")]
EmitOf(m) ==
    <<type_section(m.types),
      function_section(m.functions, Len(m.types)),
      global_section(m.constants),
      start_section(Len(m.functions)),
      element_section(m.functions),
      code_section(m.functions, m.constants),
      name_section(m, Len(m.functions), Len(m.types))>>

TypeItem ==
    CustomType("Item", <<>>,
               <<Variant("One", <<Field(<<>>, IntType)>>),
                 Variant("Two", <<Field(<<>>, IntType), Field(<<>>, IntType)>>)>>)
\* type Cell { Held(Int) }
TypeCell == CustomType("Cell", <<>>, <<Variant("Held", <<Field(<<>>, IntType)>>)>>)
\* type Crate { Packed(Item, Cell) }
TypeCrate ==
    CustomType("Crate", <<>>,
               <<Variant("Packed", <<Field(<<>>, Named("Item")),
                                     Field(<<>>, Named("Cell"))>>)>>)
StatementTypes == <<TypeItem, TypeCell, TypeCrate>>

\* fn f(a: Int, b: Int) { statements }
StatementFunction(statements) ==
    [k |-> "Function", name |-> "f",
     arguments |-> <<Argument("a", IntType), Argument("b", IntType)>>,
     return_type |-> StatementType(statements[Len(statements)]),
     body |-> statements]

Let(pattern, value) == Assignment("Let", pattern, value)
LetAssert(pattern, value) == Assignment("Assert", pattern, value)
IntVar(name) == LocalVar(name, IntType)
PVar(name) == PatternVariable(name)
\* the calls of the constructors
One(e) ==
    CallExpr(RecordVar("One", 1, Named("Item")), <<CallArg(e)>>, Named("Item"))
Two(e1, e2) ==
    CallExpr(RecordVar("Two", 2, Named("Item")), <<CallArg(e1), CallArg(e2)>>,
             Named("Item"))
Held(e) ==
    CallExpr(RecordVar("Held", 1, Named("Cell")), <<CallArg(e)>>, Named("Cell"))
Packed(item, cell) ==
    CallExpr(RecordVar("Packed", 2, Named("Crate")),
             <<CallArg(item), CallArg(cell)>>, Named("Crate"))
\* case a { 0 -> One(b)  _ -> Two(a, b) }
ItemOfA ==
    CaseExpr(<<VarA>>,
             <<Clause(<<PatternInt(0)>>, One(VarB)),
               Clause(<<PatternDiscard>>, Two(VarA, VarB))>>,
             Named("Item"))

AssertPrograms ==
    \* let assert n = a
    {<<LetAssert(PatternInt(n), VarA)>> : n \in 0..MaxLit}
    \cup
    {\* let assert 0 = a  b
     <<LetAssert(PatternInt(0), VarA), ExprStatement(VarB)>>,
     \* let assert x = a + b  x
     <<LetAssert(PVar("x"), IntOp("AddInt", VarA, VarB)),
       ExprStatement(IntVar("x"))>>,
     \* let assert b = a - b  b
     <<LetAssert(PVar("b"), IntOp("SubInt", VarA, VarB)), ExprStatement(VarB)>>,
     \* let assert One(n) = case a { 0 -> One(b)  _ -> Two(a, b) }  n
     <<LetAssert(PatternConstructor("One", <<PVar("n")>>), ItemOfA),
       ExprStatement(IntVar("n"))>>,
     \* let assert Two(_, 1) = case a { .. }
     <<LetAssert(PatternConstructor("Two", <<PatternDiscard, PatternInt(1)>>),
                 ItemOfA)>>,
     \* let assert Packed(One(n), Held(1)) = Packed(case a { .. }, Held(b))  n
     <<LetAssert(PatternConstructor(
                     "Packed",
                     <<PatternConstructor("One", <<PVar("n")>>),
                       PatternConstructor("Held", <<PatternInt(1)>>)>>),
                 Packed(ItemOfA, Held(VarB))),
       ExprStatement(IntVar("n"))>>,
     \* let assert Packed(Two(0, n), Held(m)) = Packed(case a { .. }, Held(b))
     \* n + m
     <<LetAssert(PatternConstructor(
                     "Packed",
                     <<PatternConstructor("Two", <<PatternInt(0), PVar("n")>>),
                       PatternConstructor("Held", <<PVar("m")>>)>>),
                 Packed(ItemOfA, Held(VarB))),
       ExprStatement(IntOp("AddInt", IntVar("n"), IntVar("m")))>>}

LetPrograms ==
    {\* let x = a  x + b
     <<Let(PVar("x"), VarA), ExprStatement(IntOp("AddInt", IntVar("x"), VarB))>>,
     \* let a = a + 1  a
     <<Let(PVar("a"), IntOp("AddInt", VarA, IntLit(1))), ExprStatement(VarA)>>,
     \* let _ = a  b
     <<Let(PatternDiscard, VarA), ExprStatement(VarB)>>,
     \* let x = a
     <<Let(PVar("x"), VarA)>>,
     \* let Held(m) = Held(a)  m
     <<Let(PatternConstructor("Held", <<PVar("m")>>), Held(VarA)),
       ExprStatement(IntVar("m"))>>,
     \* let Packed(i, Held(m)) = Packed(One(a), Held(b))  m
     <<Let(PatternConstructor(
               "Packed",
               <<PVar("i"), PatternConstructor("Held", <<PVar("m")>>)>>),
           Packed(One(VarA), Held(VarB))),
       ExprStatement(IntVar("m"))>>,
     \* let q = a / b  q
     <<Let(PVar("q"), IntOp("DivInt", VarA, VarB)), ExprStatement(IntVar("q"))>>,
     \* let t = a == 0 && a < b  t
     <<Let(PVar("t"), BoolOp("And", BoolOp("Eq", VarA, IntLit(0)),
                             BoolOp("LtInt", VarA, VarB))),
       ExprStatement(LocalVar("t", BoolType))>>,
     \* let x = a  let y = b  x - y
     <<Let(PVar("x"), VarA), Let(PVar("y"), VarB),
       ExprStatement(IntOp("SubInt", IntVar("x"), IntVar("y")))>>,
     \* let x = a  case x { 0 -> b  y -> y }
     <<Let(PVar("x"), VarA),
       ExprStatement(CaseExpr(<<IntVar("x")>>,
                              <<Clause(<<PatternInt(0)>>, VarB),
                                Clause(<<PVar("y")>>, IntVar("y"))>>,
                              IntType))>>}

ScopePrograms ==
    {\* a  b  a + b
     <<ExprStatement(VarA), ExprStatement(VarB),
       ExprStatement(IntOp("AddInt", VarA, VarB))>>,
     \* a
     <<ExprStatement(VarA)>>,
     \* { let a = b  a }  a
     <<ExprStatement(BlockExpr(<<Let(PVar("a"), VarB), ExprStatement(VarA)>>)),
       ExprStatement(VarA)>>,
     \* let x = a  { let x = b  x }  x
     <<Let(PVar("x"), VarA),
       ExprStatement(BlockExpr(<<Let(PVar("x"), VarB),
                                 ExprStatement(IntVar("x"))>>)),
       ExprStatement(IntVar("x"))>>,
     \* case b, a { a, 0 -> a  _, _ -> a }  a
     <<ExprStatement(CaseExpr(<<VarB, VarA>>,
                              <<Clause(<<PVar("a"), PatternInt(0)>>, VarA),
                                Clause(<<PatternDiscard, PatternDiscard>>,
                                       VarA)>>,
                              IntType)),
       ExprStatement(VarA)>>,
     \* case a { 0 -> { let b = a  b }  _ -> b }  b
     <<ExprStatement(CaseExpr(<<VarA>>,
                              <<Clause(<<PatternInt(0)>>,
                                       BlockExpr(<<Let(PVar("b"), VarA),
                                                   ExprStatement(VarB)>>)),
                                Clause(<<PatternDiscard>>, VarB)>>,
                              IntType)),
       ExprStatement(VarB)>>}

StatementFunctions ==
    {StatementFunction(body) :
         body \in AssertPrograms \cup LetPrograms \cup ScopePrograms}

InitStatement ==
    /\ fn \in StatementFunctions
    /\ argv \in ArgumentValues(fn)
    /\ phase = "ast"
    /\ status = "running"
    /\ MachineIdle
    /\ ast = StatementTypes
    /\ cursor = 0
    /\ table = SymbolTable_new
    /\ root_environment = Environment_new
    /\ functions = <<>>
    /\ constants = <<>>
    /\ wasm_module = [functions |-> <<>>, constants |-> <<>>, types |-> <<>>]
    /\ sections = <<>>
    /\ written = <<>>

\* the build is kept, and the function lowered last is called
LoweredIn(build) ==
    /\ table' = build.table
    /\ root_environment' = build.env
    /\ functions' = build.functions
    /\ constants' = build.constants
    /\ IF build.panic
       THEN /\ status' = "panic"
            /\ phase' = "halt"
            /\ UNCHANGED <<code, fnLocals, pc, frame>>
       ELSE Enter(build.functions[Len(build.functions)])

\* construct_module on the module that holds the types and fn, then the call
LowerIn ==
    /\ phase = "ast"
    /\ LoweredIn(construct_module(Append(ast, fn)))
    /\ UNCHANGED <<fn, argv, stack, labels, trace, global_values, ast, cursor,
                   wasm_module, sections, written>>

\* the step leaves the function, its code and the module as they are
FixedIn == UNCHANGED <<fn, argv, code, fnLocals, global_values, moduleVars>>

\* the WasmFunction with this function index, and its number of parameters
Callee(f) ==
    functions[CHOOSE i \in 1..Len(functions) : functions[i].function_index = f]
CalleeArity(f) == Len(Callee(f).argument_names)
\* the module's types as the Type section holds them
EncodedTypes == type_section(sort_by_key(module_types(table), "id")).entries

\* call of a constructor: the callee is run to its end
ExecCall ==
    /\ Running /\ Instr.op = "Call"
    /\ IF \/ \A i \in 1..Len(functions) : functions[i].function_index # Instr.n
          \/ Avail < CalleeArity(Instr.n)
       THEN Stop("invalid")
       ELSE LET result ==
                    CallBody(Callee(Instr.n).instructions, 1, <<>>,
                             Top(CalleeArity(Instr.n)), EncodedTypes)
            IN IF ~result.ok THEN Stop("invalid")
               ELSE Go(pc + 1, Popped(CalleeArity(Instr.n)) \o result.st,
                       frame, labels)
    /\ FixedIn

\* ref.test: 1 iff the reference is to a struct of this (final) type
ExecRefTest ==
    /\ Running /\ Instr.op = "RefTest"
    /\ IF Avail < 1 THEN Stop("invalid")
       ELSE Go(pc + 1,
               Append(Popped(1), Bool32(stack[Len(stack)].struct = Instr.n)),
               frame, labels)
    /\ FixedIn

\* ref.cast traps unless the reference is to a struct of this type
ExecRefCast ==
    /\ Running /\ Instr.op = "RefCast"
    /\ IF Avail < 1 THEN Stop("invalid")
       ELSE IF stack[Len(stack)].struct # Instr.n THEN Stop("trap")
       ELSE Go(pc + 1, stack, frame, labels)
    /\ FixedIn

\* struct.get: the field of the struct on top of the stack
ExecStructGet ==
    /\ Running /\ Instr.op = "StructGet"
    /\ IF Avail < 1 THEN Stop("invalid")
       ELSE IF stack[Len(stack)] = RefNull THEN Stop("trap")
       ELSE IF \/ stack[Len(stack)].struct # Instr.n
               \/ Instr.field >= Len(stack[Len(stack)].fields)
       THEN Stop("invalid")
       ELSE Go(pc + 1,
               Append(Popped(1), stack[Len(stack)].fields[Instr.field + 1]),
               frame, labels)
    /\ FixedIn

NextStatement ==
    LowerIn \/ Exec \/ ExecCall \/ ExecRefTest \/ ExecRefCast \/ ExecStructGet

SpecStatement == InitStatement /\ [][NextStatement]_vars

\* the function under SpecStatement is lowered, and its first statement is an
\* assignment of this kind
FirstAssignment(kind) ==
    /\ fn \in StatementFunctions
    /\ phase # "ast"
    /\ status # "panic"
    /\ fn.body[1].k = "Assignment"
    /\ fn.body[1].kind = kind
\* the id of the first local allocated after the arguments: the scrutinee
\* local of an assignment that is the function's first statement
FirstLocal == Len(fn.arguments)
\* the nodes of a source pattern in breadth-first order
RECURSIVE PatternBFS(_)
PatternBFS(queue) ==
    IF queue = <<>> THEN <<>>
    ELSE <<Head(queue)>>
         \o PatternBFS(Tail(queue)
                       \o (IF Head(queue).k = "Constructor"
                           THEN Head(queue).arguments ELSE <<>>))
\* the type id of the product a constructor pattern names
ProductTypeOf(name) ==
    Store_get(table.products, Environment_get(root_environment, name).id).type_
\* whether a value of the running module matches a source pattern
RECURSIVE PatternMatches(_, _)
PatternMatches(pattern, v) ==
    IF pattern.k = "Int" THEN v = pattern.value[1]
    ELSE IF pattern.k = "Constructor" THEN
        /\ v.struct = ProductTypeOf(pattern.name)
        /\ \A j \in 1..Len(pattern.arguments) :
               PatternMatches(pattern.arguments[j], v.fields[j + 1])
    ELSE TRUE
\* the positions of the trace, and the k-th smallest position of a set
Executed1(p) == \E i \in 1..Len(trace) : trace[i] = p
Nth(S, k) == CHOOSE x \in S : Cardinality({y \in S : y < x}) = k - 1
\* the position of the local.set of the first statement's scrutinee, of the
\* `end` of the inner and of the outer block that follow it
SetAt ==
    CHOOSE p \in 1..Len(code) :
        /\ code[p] = LocalSet(FirstLocal)
        /\ \A q \in 1..(p - 1) : code[q] # LocalSet(FirstLocal)
InnerEnd == MatchEnd(code, SetAt + 2)
OuterEnd == MatchEnd(code, SetAt + 1)
\* the positions of the `br_if 0` between the two `block` and `br 1`
ChecksAt == {p \in (SetAt + 3)..(InnerEnd - 2) : code[p] = BrIf(0)}
\* the condition of a pattern node ends with these two instructions
ConditionEnds(node, before, last) ==
    IF node.k = "Int" THEN before = I32Const(node.value[1]) /\ last = I32Eq
    ELSE IF node.k = "Constructor"
    THEN last = RefTest(ProductTypeOf(node.name))
    ELSE last = I32Const(1)
\* the scrutinee is stored and matches, or does not match, the pattern
Stored == Executed1(SetAt)
AssertHolds == PatternMatches(fn.body[1].pattern, frame[FirstLocal + 1])

\* the layout of the code of an assert assignment
AssertLayout ==
    /\ fnLocals[FirstLocal + 1] = <<"#assign#", FirstLocal>>
    /\ code[SetAt + 1] = Block(0)
    /\ code[SetAt + 2] = Block(0)
    /\ code[InnerEnd - 1] = Br(1)
    /\ code[InnerEnd + 1] = Unreachable
    /\ OuterEnd = InnerEnd + 2
    /\ code[OuterEnd + 1] = LocalGet(FirstLocal)
    /\ \A p \in (SetAt + 3)..(InnerEnd - 2) :
           code[p].op \notin {"Block", "End", "Br", "Unreachable", "If"}
    /\ Cardinality(ChecksAt) = Len(PatternBFS(<<fn.body[1].pattern>>))
    /\ \A k \in 1..Cardinality(ChecksAt) :
           /\ code[Nth(ChecksAt, k) - 1] = I32Eqz
           /\ ConditionEnds(PatternBFS(<<fn.body[1].pattern>>)[k],
                            code[Nth(ChecksAt, k) - 3],
                            code[Nth(ChecksAt, k) - 2])
\* the instructions the machine of SpecStatement takes a step on
MachineOps ==
    {"I32Const", "LocalGet", "LocalSet", "LocalTee", "Drop", "I32Eqz", "I32Add", "I32Sub",
     "I32Mul", "I32DivS", "I32RemS", "I32Eq", "I32Ne", "I32LtS", "I32GtS",
     "I32LeS", "I32GeS", "I32And", "I32Or", "Block", "If", "Else", "End",
     "Br", "BrIf", "Unreachable", "Call", "RefTest", "RefCast", "StructGet"}
\* the run of the code of an assert assignment, so far
AssertRun ==
    /\ \A p \in 1..SetAt : Cardinality({i \in 1..Len(trace) : trace[i] = p}) <= 1
    /\ phase = "run" => pc \in 1..Len(code) /\ code[pc].op \in MachineOps
    /\ pc = SetAt /\ status = "running" => Len(stack) = 1
    /\ \A i \in 1..(Len(trace) - 1) :
           trace[i] \in ChecksAt => trace[i + 1] \in {trace[i] + 1, InnerEnd + 1}
    /\ (Stored /\ AssertHolds) =>
        /\ ~Executed1(InnerEnd + 1)
        /\ pc # InnerEnd + 1
        /\ status # "trap"
        /\ Executed1(InnerEnd - 1) => Executed1(OuterEnd + 1) \/ pc = OuterEnd + 1
        /\ pc = OuterEnd + 2 =>
               /\ Len(stack) = 1
               /\ stack[1] = frame[FirstLocal + 1]
    /\ (Stored /\ ~AssertHolds) =>
        /\ ~Executed1(InnerEnd - 1)
        /\ ~Executed1(OuterEnd + 1)
        /\ pc <= InnerEnd + 1
        /\ phase = "halt" =>
               /\ status = "trap"
               /\ trace[Len(trace)] = InnerEnd + 1
               /\ trace[Len(trace) - 1] \in ChecksAt

\* C21: an assert assignment evaluates its value once and stores it in the new
\* local #assign#<id>; the conditions of the pattern's nodes follow in
\* breadth-first order, each with i32.eqz and br_if 0. When a condition fails
\* the run goes from its br_if to the end of the inner block and traps at
\* `unreachable`; when all hold, `br 1` leaves the outer block, `unreachable`
\* is not executed and the statement leaves the value of the scrutinee local.
C21_AssertAssignment == FirstAssignment("Assert") => AssertLayout /\ AssertRun
\* a nested pattern whose root and first child matched and whose later node
\* did not: the run trapped at the assignment's `unreachable`
C21_Witness ==
    /\ FirstAssignment("Assert")
    /\ Len(PatternBFS(<<fn.body[1].pattern>>)) >= 4
    /\ Cardinality({p \in ChecksAt : Executed1(p + 1)}) >= 2
    /\ status = "trap"
    /\ trace[Len(trace)] = InnerEnd + 1

\* the projections a pattern calls for, in breadth-first order of its nodes:
\* one per argument of a constructor node, with the product's type, the
\* field's number, and the number of the projection that stored the node's
\* own subject (0 for the root, whose subject is the scrutinee)
RECURSIVE ProjectionsBFS(_, _)
ProjectionsBFS(queue, base) ==
    IF queue = <<>> THEN <<>>
    ELSE IF Head(queue).p.k # "Constructor" THEN ProjectionsBFS(Tail(queue), base)
    ELSE [j \in 1..Len(Head(queue).p.arguments) |->
             [type |-> ProductTypeOf(Head(queue).p.name), field |-> j,
              from |-> Head(queue).from]]
         \o ProjectionsBFS(
                Tail(queue)
                \o [j \in 1..Len(Head(queue).p.arguments) |->
                       [p |-> Head(queue).p.arguments[j], from |-> base + j]],
                base + Len(Head(queue).p.arguments))
LetProjections == ProjectionsBFS(<<[p |-> fn.body[1].pattern, from |-> 0]>>, 0)
\* the position of the local.get that ends the let assignment
LetEnd == SetAt + 4 * Len(LetProjections) + 1
\* the values a pattern binds to a name when it matches v
RECURSIVE PatternBound(_, _, _)
PatternBound(pattern, v, name) ==
    IF pattern.k = "Variable" THEN (IF pattern.name = name THEN {v} ELSE {})
    ELSE IF pattern.k = "Constructor" THEN
        UNION {PatternBound(pattern.arguments[j], v.fields[j + 1], name) :
                   j \in 1..Len(pattern.arguments)}
    ELSE {}
\* the code of a let assignment
LetLayout ==
    /\ fnLocals[FirstLocal + 1] = <<"#assign#", FirstLocal>>
    /\ code[LetEnd] = LocalGet(FirstLocal)
    /\ \A k \in 1..Len(LetProjections) :
        LET q == SetAt + 4 * (k - 1) IN
        /\ code[q + 1] =
               LocalGet(IF LetProjections[k].from = 0 THEN FirstLocal
                        ELSE code[SetAt + 4 * LetProjections[k].from].n)
        /\ code[q + 2] = RefCast(LetProjections[k].type)
        /\ code[q + 3] = StructGet(LetProjections[k].type, LetProjections[k].field)
        /\ code[q + 4].op = "LocalSet"
        /\ code[q + 4].n > FirstLocal
        /\ \A m \in 1..(k - 1) : code[SetAt + 4 * m].n # code[q + 4].n
    /\ IF Len(fn.body) = 1 THEN code[LetEnd + 1] = End
       ELSE code[LetEnd + 1] = Drop
\* the run of a let assignment, so far
LetRun ==
    /\ \A p \in 1..LetEnd : Cardinality({i \in 1..Len(trace) : trace[i] = p}) <= 1
    /\ pc = SetAt /\ status = "running" => Len(stack) = 1
    /\ pc \in (SetAt + 1)..LetEnd => status = "running"
    /\ pc = LetEnd + 1 /\ status = "running" =>
           stack = <<frame[FirstLocal + 1]>>
    /\ (/\ status = "done"
        /\ Len(fn.body) = 2
        /\ fn.body[2].k = "Expression"
        /\ fn.body[2].expression.k = "Var"
        /\ PatternBound(fn.body[1].pattern, frame[FirstLocal + 1],
                        fn.body[2].expression.name) # {})
       => {stack[1]} = PatternBound(fn.body[1].pattern, frame[FirstLocal + 1],
                                    fn.body[2].expression.name)

\* C22: the code of a let assignment is the value's instructions, local.set
\* of the scrutinee local, the projections of every pattern node in
\* breadth-first order and local.get of the scrutinee local: the assignment
\* adds no condition, br_if, block or unreachable, and a variable of the
\* pattern read by the next statement has the value it was bound to.
C22_LetAssignment == FirstAssignment("Let") => LetLayout /\ LetRun
\* a let with a nested constructor pattern has run to its end and the next
\* statement returned the variable bound in the nested pattern
C22_Witness ==
    /\ FirstAssignment("Let")
    /\ Len(LetProjections) >= 3
    /\ status = "done"
    /\ {stack[1]} = PatternBound(fn.body[1].pattern, frame[FirstLocal + 1], "m")
    /\ stack[1] # 0

\* the arguments of the function under SpecStatement as emit_function
\* declares them
Declared ==
    function_arguments(
        [env |-> Environment_with_enclosing(root_environment),
         locals |-> LocalStore_new, panic |-> FALSE],
        fn.arguments, table)
\* the code of each statement of a list, lowered one after the other
RECURSIVE StatementCodes(_, _, _)
StatementCodes(statements, env, locals) ==
    IF statements = <<>> THEN <<>>
    ELSE LET stated == emit_statement(Head(statements), env, locals, table)
         IN <<stated.emitted.insts>>
            \o StatementCodes(Tail(statements), stated.env, stated.emitted.locals)
\* the codes one after the other, with `drop` after each but the last
RECURSIVE DropsBetween(_)
DropsBetween(codes) ==
    IF Len(codes) = 1 THEN codes[1]
    ELSE codes[1] \o <<Drop>> \o DropsBetween(Tail(codes))
\* the position after the code of the i-th statement: of its `drop`, or of
\* the function's `end` after the last
RECURSIVE StatementEnd(_, _)
StatementEnd(codes, i) ==
    IF i = 0 THEN 0 ELSE StatementEnd(codes, i - 1) + Len(codes[i]) + 1
BodyCodes == StatementCodes(fn.body, Declared.env, Declared.locals)
\* the function of SpecStatement is lowered
StatementLowered == fn \in StatementFunctions /\ phase # "ast" /\ status # "panic"

\* C23: the code of a list of n >= 1 statements is, in source order, the code
\* of each of the first n-1 statements followed by one `drop`, then the code
\* of the last with no `drop`: before each `drop` the stack holds the
\* statement's one value, after it none, and at the end of the list exactly
\* the last statement's value.
C23_StatementList ==
    StatementLowered =>
        /\ pc = 1 /\ trace = <<>> => code = DropsBetween(BodyCodes) \o <<End>>
        /\ (status = "running" /\ labels = <<>> /\ code[pc].op \in {"Drop", "End"}) =>
            \A i \in 1..Len(fn.body) :
                /\ pc = StatementEnd(BodyCodes, i) =>
                    /\ Len(stack) = 1
                    /\ \A j \in 1..(i - 1) :
                           Executed1(StatementEnd(BodyCodes, j))
                    /\ \A j \in (i + 1)..Len(fn.body) :
                           ~Executed1(StatementEnd(BodyCodes, j))
        /\ status = "done" =>
            /\ Len(stack) = 1
            /\ Cardinality({i \in 1..Len(trace) : code[trace[i]] = Drop})
                   >= Len(fn.body) - 1
            /\ (\A i \in 1..Len(fn.body) : fn.body[i].k = "Expression") =>
                   stack[1] = Eval(fn.body[Len(fn.body)].expression, Arguments).v
\* a list of three statements has run: two values were dropped and the third
\* is the result
C23_Witness ==
    /\ StatementLowered
    /\ Len(fn.body) = 3
    /\ status = "done"
    /\ Executed1(StatementEnd(BodyCodes, 1))
    /\ Executed1(StatementEnd(BodyCodes, 2))
    /\ stack = <<argv[1] + argv[2]>>
    /\ argv[1] # argv[2]

\* the value of a statement list and of an expression under lexical scoping:
\* a let binds its variable for the later statements of its own list, a
\* clause's pattern for the clause's body, and nothing outlives its list
RECURSIVE EvalStatements(_, _)
RECURSIVE EvalScoped(_, _)
EvalScoped(e, vals) ==
    IF e.k = "Block" THEN EvalStatements(e.statements, vals)
    ELSE IF e.k = "Case" THEN
        LET subjects == EvalAll(e.subjects, vals)
            i == FirstMatch(e.clauses, subjects.vs)
        IN IF ~subjects.ok THEN NoValue(subjects.why)
           ELSE IF i = 0 THEN NoValue("nomatch")
           ELSE EvalScoped(e.clauses[i].then,
                           Bound(e.clauses[i].pattern, subjects.vs, vals))
    ELSE Eval(e, vals)
EvalStatements(statements, vals) ==
    LET v == IF Head(statements).k = "Assignment"
             THEN EvalScoped(Head(statements).value, vals)
             ELSE EvalScoped(Head(statements).expression, vals)
    IN IF ~v.ok \/ Len(statements) = 1 THEN v
       ELSE EvalStatements(
                Tail(statements),
                IF Head(statements).k = "Assignment"
                THEN Bound(<<Head(statements).pattern>>, <<v.v>>, vals)
                ELSE vals)

\* C24: the bindings of a case clause are seen by that clause's body only,
\* and the bindings of the assignments of a block by the later statements of
\* that block only: every statement after the clause or block, and every
\* later clause, reads a name as it was bound before.
C24_ScopeIsolation ==
    (StatementLowered /\ fn.body \in ScopePrograms) =>
        /\ status \in {"running", "done"}
        /\ (status = "running" /\ labels = <<>> /\ code[pc].op \in {"Drop", "End"}) =>
            \A i \in 1..Len(fn.body) :
                pc = StatementEnd(BodyCodes, i) =>
                    stack = <<EvalStatements(SubSeq(fn.body, 1, i), Arguments).v>>
        /\ status = "done" => stack = <<EvalStatements(fn.body, Arguments).v>>
\* a block that rebinds the argument a has been lowered and run, and the
\* statement after it returned the argument
C24_Witness ==
    /\ StatementLowered
    /\ fn.body \in ScopePrograms
    /\ Len(fn.body) = 2
    /\ fn.body[1].expression.k = "Block"
    /\ fn.body[1].expression.statements[1].k = "Assignment"
    /\ fn.body[1].expression.statements[1].pattern.name = "a"
    /\ status = "done"
    /\ stack = <<argv[1]>>
    /\ argv[1] # argv[2]

\* the WasmModule of the module lowered under SpecStatement, as encoder::emit
\* sorts it, and the place of the function under test in its functions
StatementModule ==
    ModuleOf([functions |-> functions, constants |-> constants, table |-> table])
FunctionUnderTest(m) ==
    CHOOSE k \in 1..Len(m.functions) : m.functions[k].name = <<fn.name>>
\* the local indices at which the function's code reads or writes
LocalsUsed ==
    {code[p].n : p \in {q \in 1..Len(code) :
                            code[q].op \in {"LocalGet", "LocalSet", "LocalTee"}}}
\* the locals of the function under test, in the function, its Code entry and
\* its entry of the Name section
LocalNumbering(m, k, arity) ==
    LET f == m.functions[k]
        entry == code_section(m.functions, m.constants).entries[k]
        names == name_section(m, Len(m.functions), Len(m.types)).local_names[k]
    IN
    /\ f.argument_names = [i \in 1..arity |-> <<fn.arguments[i].name>>]
    /\ \A j \in 1..Len(f.locals) :
        /\ f.locals[j][1][1] \in {"#assign#", "#case#", "#pattern#"} =>
               f.locals[j][1][2] = arity + j - 1
        /\ Cardinality({p \in 1..Len(code) :
                            /\ code[p].op \in {"LocalSet", "LocalTee"}
                            /\ code[p].n = arity + j - 1}) = 1
        /\ entry.locals[j] = <<1, to_val_type(f.locals[j][2])>>
    /\ \A i \in 1..arity : \A p \in 1..Len(code) :
           code[p].op \in {"LocalSet", "LocalTee"} => code[p].n # i - 1
    /\ LocalsUsed \subseteq 0..(arity + Len(f.locals) - 1)
    /\ Len(entry.locals) = Len(f.locals)
    /\ entry.instructions = code
    /\ names[1] = f.function_index
    /\ names[2] = [i \in 1..(arity + Len(f.locals)) |-> <<i - 1, fnLocals[i]>>]
    /\ FirstAssignment("Let") \/ FirstAssignment("Assert") =>
        /\ f.locals[1][1] = <<"#assign#", arity>>
        /\ entry.locals[1][2].v =
               IF fn.body[1].value.typ \in {IntType, BoolType} THEN "I32" ELSE "Ref"

\* C25: the arguments of a function are its locals 0..arity-1 in declared
\* order, every local allocated in its body has an id of its own from arity
\* on, in the order of allocation, and the j-th entry of the WasmFunction's
\* locals is local arity+j of the Code section and of the Name section.
C25_LocalNumbering ==
    (StatementLowered /\ phase = "run") =>
        LocalNumbering(StatementModule, FunctionUnderTest(StatementModule),
                       Len(fn.arguments))
\* a function with a scrutinee local, a case subject local and pattern locals
\* is lowered
C25_Witness ==
    /\ StatementLowered
    /\ phase = "run"
    /\ \A n \in {"#assign#", "#case#", "#pattern#"} :
           \E i \in 1..Len(fnLocals) : fnLocals[i][1] = n
    /\ Len(fnLocals) >= Len(fn.arguments) + 4

\* the product a constructor's name is bound to
ProductOf(name) ==
    Store_get(table.products, Environment_get(root_environment, name).id)
\* the constructors an expression calls, in the order of the calls: the calls
\* of the arguments from left to right, then the call itself
RECURSIVE ConstructorCalls(_)
RECURSIVE ConstructorCallsOf(_, _)
ConstructorCallsOf(expressions, i) ==
    IF i > Len(expressions) THEN <<>>
    ELSE ConstructorCalls(expressions[i]) \o ConstructorCallsOf(expressions, i + 1)
ConstructorCalls(e) ==
    IF e.k = "Call"
    THEN ConstructorCallsOf([i \in 1..Len(e.args) |-> e.args[i].value], 1)
         \o <<e.fun.name>>
    ELSE IF e.k = "Case"
    THEN ConstructorCallsOf([i \in 1..Len(e.clauses) |-> e.clauses[i].then], 1)
    ELSE <<>>
\* the value of an expression that builds a record: a struct of the
\* product's type holding the tag and the arguments' values in order
RECURSIVE RecordValue(_, _)
RecordValue(e, vals) ==
    IF e.k = "Call"
    THEN Struct(ProductOf(e.fun.name).type_,
                <<ProductOf(e.fun.name).tag>>
                \o [i \in 1..Len(e.args) |-> RecordValue(e.args[i].value, vals)])
    ELSE IF e.k = "Case"
    THEN RecordValue(
             e.clauses[FirstMatch(e.clauses, EvalAll(e.subjects, vals).vs)].then,
             vals)
    ELSE Eval(e, vals).v
\* the first statement is an assignment whose value is a record
RecordAssigned ==
    /\ StatementLowered
    /\ fn.body[1].k = "Assignment"
    /\ fn.body[1].value.typ \notin {IntType, BoolType}

\* C26: the code of a call is the code of its arguments in the order of the
\* call, then one `call` of the constructor function of the product called:
\* each argument is evaluated once, and the callee receives the arguments'
\* values in their order.
C26_CallLowering ==
    RecordAssigned =>
        /\ CallTargets(SubSeq(code, 1, SetAt - 1))
               = [c \in 1..Len(ConstructorCalls(fn.body[1].value)) |->
                     ProductOf(ConstructorCalls(fn.body[1].value)[c]).constructor]
        /\ fn.body[1].value.k = "Call" =>
               code[SetAt - 1] = Call(ProductOf(fn.body[1].value.fun.name).constructor)
        /\ \A p \in 1..SetAt :
               Cardinality({i \in 1..Len(trace) : trace[i] = p}) <= 1
        /\ Stored => frame[FirstLocal + 1] = RecordValue(fn.body[1].value, Arguments)
\* Packed(One(a), Held(b)) has been called with a # b and its value stored
C26_Witness ==
    /\ RecordAssigned
    /\ fn.body[1].value = Packed(One(VarA), Held(VarB))
    /\ Stored
    /\ argv[1] # argv[2]
    /\ CallTargets(SubSeq(code, 1, SetAt - 1))
           = <<ProductOf("One").constructor, ProductOf("Held").constructor,
               ProductOf("Packed").constructor>>

\* the custom types of the module lowered under SpecStatement, the emitted
\* functions with a function index, and the constructor of a variant
VariantsOf(t) == 1..Len(ast[t].constructors)
FunctionsIndexed(f) == {i \in 1..Len(functions) : functions[i].function_index = f}
\* the constructor function of variant v of the custom type ast[t]
ConstructorBody(t, v) ==
    LET product == VariantProduct(t, v)
        n == Len(ast[t].constructors[v].arguments)
        f == Callee(product.constructor)
        signature == Store_get(table.types, f.type_index).definition.definition
    IN
    /\ product.tag = v - 1
    /\ Cardinality(FunctionsIndexed(product.constructor)) = 1
    /\ f.instructions
           = <<I32Const(product.tag)>> \o [i \in 1..n |-> LocalGet(i - 1)]
             \o <<StructNew(product.type_), End>>
    /\ f.locals = <<>>
    /\ Len(f.argument_names) = n
    /\ f.type_index = Store_get(table.functions, product.constructor).signature
    /\ signature.k = "Function"
    /\ signature.returns = StructRef(product.type_)
    /\ signature.parameters = VariantType(t, v).definition.fields
    /\ Len(signature.parameters) = n
    /\ VariantType(t, v).definition.k = "Product"
    /\ VariantType(t, v).id = product.type_
    /\ Store_get(table.types, product.type_).definition = VariantType(t, v)
\* the last step ran the call of a constructor
ConstructorCalled ==
    /\ status = "running"
    /\ trace # <<>>
    /\ code[trace[Len(trace)]].op = "Call"
\* the struct a constructor has left on the stack is of its product's type,
\* holds the product's tag in field 0 and one field per argument
ConstructedStruct(constructor, struct) ==
    \E t \in 1..Len(ast) : \E v \in VariantsOf(t) :
        /\ VariantProduct(t, v).constructor = constructor
        /\ struct.struct = VariantProduct(t, v).type_
        /\ struct.fields[1] = VariantProduct(t, v).tag
        /\ Len(struct.fields) = 1 + Len(ast[t].constructors[v].arguments)

\* C27: the constructor function of a variant with n arguments pushes the
\* variant's tag, local.get 0 .. local.get n-1, struct.new of the variant's
\* product type, and end; its function index is the product's constructor,
\* its type the constructor signature, whose parameters are the fields and
\* whose return is the struct reference of the product type; the struct it
\* builds holds the product's tag.
C27_ConstructorBodies ==
    StatementLowered =>
        /\ \A t \in 1..Len(ast) : \A v \in VariantsOf(t) : ConstructorBody(t, v)
        /\ ConstructorCalled =>
               ConstructedStruct(code[trace[Len(trace)]].n, stack[Len(stack)])
\* the constructor of the second variant of a type, of two arguments, has
\* been called
C27_Witness ==
    /\ StatementLowered
    /\ ConstructorCalled
    /\ code[trace[Len(trace)]].n = VariantProduct(1, 2).constructor
    /\ stack[Len(stack)].fields = <<1, argv[1], argv[2]>>
    /\ argv[1] # argv[2]

\* the function indices the one segment of the Element section lists
ElementSegments == SectionOf("Element").segments
Listed(segment) == {segment.elements[i] : i \in 1..Len(segment.elements)}

\* C28: the Element section holds one segment, of declared mode, whose
\* function indices are 0..F-1 in order, F the number of user functions and
\* constructors: every emitted function is listed once, the start function
\* is not.
C28_ElementSegment ==
    HasSection("Element") =>
        /\ Cardinality({i \in 1..Len(sections) : sections[i].id = "Element"}) = 1
        /\ Len(ElementSegments) = 1
        /\ ElementSegments[1].mode = "Declared"
        /\ ElementSegments[1].elements = [i \in 1..DefinedFunctions |-> i - 1]
        /\ Len(wasm_module.functions) = DefinedFunctions
        /\ {wasm_module.functions[i].function_index :
                i \in 1..Len(wasm_module.functions)} = Listed(ElementSegments[1])
        /\ SectionOf("Start").function_index \notin Listed(ElementSegments[1])
        /\ SectionOf("Start").function_index = DefinedFunctions
\* the Element section of a module with a function and constructors is written
C28_Witness ==
    /\ HasSection("Element")
    /\ FunctionDefs # {}
    /\ AllVariants # {}
    /\ Len(ElementSegments[1].elements) >= 3

\* the struct reference a named custom type resolves to through the root
\* environment, and the id of the type synthesised for the sum
ResolvedNamed(t) == from_gleam_type(Named(ast[t].name), root_environment, table)
SumTypeId(t) == TableTypeNamed(<<"sum@", ast[t].name>>).id
\* the custom type has a variant of its own name
OwnNameVariant(t) ==
    \E v \in 1..Len(ast[t].constructors) : ast[t].constructors[v].name = ast[t].name

\* C29: after the second pass, the name of every custom type of the module
\* resolves through the root environment to the struct reference of the
\* type's sum type id, also when a variant carries the type's name.
C29_NamedTypeResolution ==
    Synthesised =>
        \A t \in CustomTypes : ResolvedNamed(t) = StructRef(SumTypeId(t))

\* the first statement assigns to a variable that names an argument, and the
\* second statement reads that variable
ArgumentNamed(name) ==
    CHOOSE i \in 1..Len(fn.arguments) : fn.arguments[i].name = name
Rebinding ==
    /\ StatementLowered
    /\ fn.body[1].k = "Assignment"
    /\ fn.body[1].pattern.k = "Variable"
    /\ \E i \in 1..Len(fn.arguments) : fn.arguments[i].name = fn.body[1].pattern.name
    /\ Len(fn.body) = 2
    /\ fn.body[2].k = "Expression"
    /\ fn.body[2].expression.k = "Var"
    /\ fn.body[2].expression.name = fn.body[1].pattern.name

\* C30: the value of an assignment is lowered in the environment as it was
\* before the assignment and the pattern's bindings are registered after it:
\* in `let x = <expression of x>` the value reads the previous binding of x,
\* and the statements after the assignment read the newly bound local.
C30_ValueSeesOldScope ==
    Rebinding =>
        /\ \A p \in 1..(SetAt - 1) :
               code[p].op = "LocalGet" => code[p].n < Len(fn.arguments)
        /\ \E p \in 1..(SetAt - 1) :
               code[p] = LocalGet(ArgumentNamed(fn.body[1].pattern.name) - 1)
        /\ code[Len(code) - 1] = LocalGet(FirstLocal)
        /\ \A i \in 1..Len(fn.arguments) : phase # "ast" => frame[i] = argv[i]
        /\ pc = SetAt /\ status = "running" =>
               stack = <<Eval(fn.body[1].value, Arguments).v>>
        /\ status = "done" => stack = <<Eval(fn.body[1].value, Arguments).v>>
\* `let a = a + 1  a` has run to its end and returned the argument plus one
C30_Witness ==
    /\ Rebinding
    /\ fn.body[1].kind = "Let"
    /\ fn.body[1].pattern.name = "a"
    /\ status = "done"
    /\ stack = <<argv[1] + 1>>
    /\ frame[FirstLocal + 1] # frame[1]

====
